---- MODULE Spec2Model ----
(***************************************************************************)
(* Model of the SRAG report pipeline: the graph workflow of src/graph.py   *)
(* (FinancialReportWorkflow), the seven agents of src/agents and the run   *)
(* methods of the seven tools of src/tools.                                *)
(*                                                                         *)
(* The workflow state is the set of LangGraph channels declared by         *)
(* AgentState; a node reads it with state.get, calls its agent and writes  *)
(* result[key] back.  Everything outside the process (network, file        *)
(* system, configuration file, environment variables, LLM) is an           *)
(* environment record drawn nondeterministically by the node's action.     *)
(***************************************************************************)
EXTENDS Integers, Sequences, FiniteSets

VARIABLES
    phase,      \* FinancialReportWorkflow.run: "idle", "running", "completed", "aborted"
    frontier,   \* nodes the compiled graph has to execute next (END when the chain is over)
    status,     \* per node: "Pending", "Running", "Succeeded", "Failed"
    state,      \* the channels of AgentState: key -> value, Absent when never written
    raised,     \* the exception propagating out of graph.invoke / run (NoExc when none)
    returned,   \* what run() returned: {} while it has returned nothing, else {final_state}
    invoked,    \* history: the nodes invoked, in order
    before,     \* history: the state handed to the node invoked last
    work,       \* history: the steps the tool of the node invoked last performed
    trace,      \* history: every tool step of the run, in order
    files,      \* history: the files written during the run
    writers,    \* history: key -> the nodes that assigned it
    outcome,    \* history: node -> {} or {what its agent did in this call of run()}
    previous,   \* history: {} or {the record of the previous call of run()}
    cli,        \* the entry point: the program started and how far it has got
    frame,      \* the data frame the metrics tool loaded, and the day it runs
    metrics     \* {} or {the metrics dict the metrics tool computed from frame}

vars == <<phase, frontier, status, state, raised, returned, invoked, before,
          work, trace, files, writers, outcome, previous, cli, frame, metrics>>

----------------------------------------------------------------------------
(* Bounds *)

DaysToTry == 2      \* downloader_config.days_to_try (a value of conf/parameters.yaml)

MaxRows == 3        \* rows of the processed file the metrics tool is run on

----------------------------------------------------------------------------
(* Values *)

Absent == "<absent>"        \* the key is not in the dict
None   == "None"            \* Python's None
NoExc  == "<no exception>"

Keys ==
    { "downloaded_file_path", "metadata_file_path", "processed_data_file_path",
      "metrics_file_path", "periods_file_path",
      "last_30_days_json_file_path", "last_12_months_json_file_path",
      "last_30_days_plot_file_path", "last_12_months_plot_file_path",
      "news_file_path", "report_file_path", "final_report_file_path" }

END == "__end__"

Nodes ==
    << "data_downloader", "data_preprocessor", "metrics_calculator",
       "visualizations", "news_collector", "report_generator",
       "final_report_generator" >>

NodeSet == { Nodes[i] : i \in 1..Len(Nodes) }

EntryPoint == "data_downloader"

(* A graph in which the metrics node also leads to the news node. *)
EdgesWithBranch ==
    { <<"data_downloader", "data_preprocessor">>,
      <<"data_preprocessor", "metrics_calculator">>,
      <<"metrics_calculator", "visualizations">>,
      <<"metrics_calculator", "news_collector">>,
      <<"visualizations", "news_collector">>,
      <<"news_collector", "report_generator">>,
      <<"report_generator", "final_report_generator">>,
      <<"final_report_generator", END>> }

(* A graph whose last node leads back to the first instead of END. *)
EdgesWithCycle ==
    { <<"data_downloader", "data_preprocessor">>,
      <<"data_preprocessor", "metrics_calculator">>,
      <<"metrics_calculator", "visualizations">>,
      <<"visualizations", "news_collector">>,
      <<"news_collector", "report_generator">>,
      <<"report_generator", "final_report_generator">>,
      <<"final_report_generator", "data_downloader">> }

Edges ==
    { <<"data_downloader", "data_preprocessor">>,
      <<"data_preprocessor", "metrics_calculator">>,
      <<"metrics_calculator", "visualizations">>,
      <<"visualizations", "news_collector">>,
      <<"news_collector", "report_generator">>,
      <<"report_generator", "final_report_generator">>,
      <<"final_report_generator", END>> }

Successors(n) == { e[2] : e \in { d \in Edges : d[1] = n } }

Range(s) == { s[i] : i \in 1..Len(s) }

(* The paths the tools build from conf/parameters.yaml. *)
RawPath        == "raw/srag.csv"
RawMetaPath    == "raw/metadata.json"
ProcessedPath  == "processed/srag.csv"
ProcMetaPath   == "processed/metadata.json"
PeriodsPath    == "metrics/periods.json"
MetricsPath    == "metrics/metrics.json"
MetricsMetaPath == "metrics/metadata.json"
Days30Json     == "viz/last_30_days.json"
Days30Plot     == "viz/last_30_days.png"
Months12Json   == "viz/last_12_months.json"
Months12Plot   == "viz/last_12_months.png"
VizMetaPath    == "viz/metadata.json"
NewsPath       == "news/news.json"
NewsMetaPath   == "news/metadata.json"
ReportPath     == "report/report.md"
ReportMetaPath == "report/metadata.json"
FinalHtmlPath  == "final/report.html"
FinalPdfPath   == "relatorio.pdf"

EmptyState == [k \in Keys |-> Absent]

KeysOf(st) == { k \in Keys : st[k] # Absent }

(* dict.get(key): None when the key is missing. *)
Get(st, k) == IF st[k] = Absent THEN None ELSE st[k]

----------------------------------------------------------------------------
(* Outcomes of a tool or an agent: the exception it raises (NoExc when it  *)
(* returns), the value it returns, the steps it performed and the files it *)
(* wrote.  A returned dict is [none |-> FALSE, val |-> key -> value]; a    *)
(* returned None is [none |-> TRUE, val |-> << >>].                        *)

NoneResult == [none |-> TRUE, val |-> << >>]

Dict(f) == [none |-> FALSE, val |-> f]

Outcome(exc, ret, steps, wrote) ==
    [exc |-> exc, ret |-> ret, steps |-> steps, wrote |-> wrote]

Step(op, arg) == [op |-> op, arg |-> arg]

----------------------------------------------------------------------------
(* tools/data_downloader.py *)

DownloaderEnv ==
    [ cfg_ok   : BOOLEAN,                   \* load_config and both sections found
      ok       : SUBSET (0..(DaysToTry-1)), \* days back whose file answers 200
      write_ok : BOOLEAN,                   \* open(save_path, "wb") works
      meta_ok  : BOOLEAN ]                  \* metadata.json can be written

(* Candidate dates generated oldest first. *)
generate_download_links_oldest_first == [i \in 1..DaysToTry |-> DaysToTry - i]

(* The candidate dates, today first: days back 0, 1, .., days_to_try-1. *)
generate_download_links == [i \in 1..DaysToTry |-> i - 1]

(* _save_metadata: the path, or None on IOError/OSError. *)
Downloader_save_metadata(env) == IF env.meta_ok THEN RawMetaPath ELSE None

RECURSIVE TryLinks(_, _, _)
TryLinks(i, env, steps) ==
    IF i > Len(generate_download_links)
    THEN Outcome(NoExc, NoneResult, steps, {})
    ELSE LET day == generate_download_links[i]
             s   == Append(steps, Step("download.get", day))
         IN  IF day \in env.ok
             THEN IF ~env.write_ok
                  THEN Outcome("OSError", NoneResult, s, {})
                  ELSE Outcome(NoExc,
                        Dict([k \in {"downloaded_file_path", "metadata_file_path"} |->
                                IF k = "downloaded_file_path" THEN RawPath
                                ELSE Downloader_save_metadata(env)]),
                        s \o << Step("download.save_metadata", day) >>,
                        {RawPath} \cup (IF env.meta_ok THEN {RawMetaPath} ELSE {}))
             ELSE TryLinks(i + 1, env, s)

run_download_process(env) == TryLinks(1, env, << >>)

----------------------------------------------------------------------------
(* tools/data_preprocessor.py *)

PreprocessorEnv ==
    [ cfg_ok   : BOOLEAN,   \* load_config and the "preprocessing" section
      load_ok  : BOOLEAN,   \* the raw CSV is readable and has the columns to keep
      clean_ok : BOOLEAN,   \* the cleaning steps raise nothing
      empty    : BOOLEAN,   \* the cleaned frame is empty
      csv_ok   : BOOLEAN,   \* the processed CSV can be written
      meta_ok  : BOOLEAN ]  \* metadata.json can be written

(* A tool that only warns when the metadata file cannot be saved. *)
run_preprocessing_process_warns_on_metadata(downloaded_file_path, env) ==
    LET s1 == << Step("preprocess.load", 0) >>
        s2 == Append(s1, Step("preprocess.clean", 0))
        s3 == Append(s2, Step("preprocess.save_csv", 0))
        s4 == Append(s3, Step("preprocess.save_metadata", 0))
    IN  IF downloaded_file_path = None \/ ~env.load_ok
        THEN Outcome(NoExc, NoneResult, s1, {})
        ELSE IF ~env.clean_ok
        THEN Outcome("KeyError", NoneResult, s2, {})
        ELSE IF env.empty \/ ~env.csv_ok
        THEN Outcome(NoExc, NoneResult, s3, {})
        ELSE Outcome(NoExc,
                     Dict([k \in {"processed_data_file_path"} |-> ProcessedPath]),
                     s4, {ProcessedPath} \cup
                         (IF env.meta_ok THEN {ProcMetaPath} ELSE {}))

run_preprocessing_process(downloaded_file_path, env) ==
    LET s1 == << Step("preprocess.load", 0) >>
        s2 == Append(s1, Step("preprocess.clean", 0))
        s3 == Append(s2, Step("preprocess.save_csv", 0))
        s4 == Append(s3, Step("preprocess.save_metadata", 0))
    IN  IF downloaded_file_path = None \/ ~env.load_ok
        THEN Outcome(NoExc, NoneResult, s1, {})
        ELSE IF ~env.clean_ok
        THEN Outcome("KeyError", NoneResult, s2, {})
        ELSE IF env.empty \/ ~env.csv_ok
        THEN Outcome(NoExc, NoneResult, s3, {})
        ELSE IF ~env.meta_ok
        THEN Outcome(NoExc, NoneResult, s4, {ProcessedPath})
        ELSE Outcome(NoExc,
                     Dict([k \in {"processed_data_file_path"} |-> ProcessedPath]),
                     s4, {ProcessedPath, ProcMetaPath})

----------------------------------------------------------------------------
(* tools/metrics_calculator.py *)

MetricsEnv ==
    [ cfg_ok  : BOOLEAN,    \* load_config and the "metrics_calculator" section
      load_ok : BOOLEAN,    \* the processed CSV is readable
      calc_ok : BOOLEAN,    \* the rate calculations raise nothing
      saved   : SUBSET {MetricsMetaPath, PeriodsPath, MetricsPath} ]
                            \* the JSON files _save_json_file manages to write

run_metrics_calculation(processed_data_file_path, env) ==
    LET s1 == << Step("metrics.load", 0) >>
        s2 == Append(s1, Step("metrics.calculate", 0))
        s3 == s2 \o << Step("metrics.save_json", 1), Step("metrics.save_json", 2),
                       Step("metrics.save_json", 3) >>
    IN  IF processed_data_file_path = None \/ ~env.load_ok
        THEN Outcome(NoExc, NoneResult, s1, {})
        ELSE IF ~env.calc_ok
        THEN Outcome("KeyError", NoneResult, s2, {})
        ELSE Outcome(NoExc,
                     Dict([k \in {"periods_file_path", "metrics_file_path"} |->
                             IF k = "periods_file_path" THEN PeriodsPath
                             ELSE MetricsPath]),
                     s3, env.saved)

----------------------------------------------------------------------------
(* tools/metrics_calculator.py: the rates.                                 *)
(* Time is counted in half days: a row's DATA_NOTIFICACAO is a date, the   *)
(* midnight 2*d of its day d; the tool runs at midday of Today, so that    *)
(* `now` falls between two midnights as datetime.now() does.  A rate is    *)
(* the fraction num/den or float("inf"); round(x, 2) turns it into a       *)
(* number of hundredths (the error of the floating-point operations        *)
(* themselves is not modelled).                                            *)

Today == 100                \* the day the tool runs, as a day number

PrevMonthLen == 30          \* the length in days of the month before Today's

now == 2 * Today + 1

timedelta(days) == 2 * days

Ratio(num, den) == [inf |-> FALSE, num |-> num, den |-> den]

float_inf == [inf |-> TRUE, num |-> 0, den |-> 1]

(* A rounded rate: v hundredths, or infinity. *)
Hundredths(v) == [inf |-> FALSE, val |-> v]

Infinity == [inf |-> TRUE, val |-> 0]

(* n/d rounded to the nearest integer, halves to the even one (d > 0). *)
RoundHalfEven(n, d) ==
    LET q == n \div d
        r == n % d
    IN  IF 2 * r < d THEN q
        ELSE IF 2 * r > d THEN q + 1
        ELSE IF q % 2 = 0 THEN q ELSE q + 1

(* round(x, 2); round(float("inf"), 2) is float("inf"). *)
round2(x) ==
    IF x.inf THEN Infinity ELSE Hundredths(RoundHalfEven(x.num * 100, x.den))

(* The rows of df notified from start to end, both included. *)
period_df(df, start, end) ==
    { i \in 1..Len(df) :
        df[i].DATA_NOTIFICACAO >= start /\ df[i].DATA_NOTIFICACAO <= end }

(* A variant that reports no increase when the previous period is empty. *)
calculate_increase_rate_zero(df, current_period_start, current_period_end, previous_period_start, previous_period_end) ==
    LET current_cases  == Cardinality(period_df(df, current_period_start, current_period_end))
        previous_cases == Cardinality(period_df(df, previous_period_start, previous_period_end))
    IN  IF previous_cases = 0 THEN Ratio(0, 1)
        ELSE Ratio((current_cases - previous_cases) * 100, previous_cases)

calculate_increase_rate(df, current_period_start, current_period_end, previous_period_start, previous_period_end) ==
    LET current_cases  == Cardinality(period_df(df, current_period_start, current_period_end))
        previous_cases == Cardinality(period_df(df, previous_period_start, previous_period_end))
    IN  IF previous_cases = 0
        THEN (IF current_cases > 0 THEN float_inf ELSE Ratio(0, 1))
        ELSE Ratio((current_cases - previous_cases) * 100, previous_cases)

calculate_mortality_rate(df, start_date, end_date) ==
    LET evolution_defined ==
            { i \in period_df(df, start_date, end_date) :
                df[i].EVOLUCAO \in {"CURA", "OBITO"} }
        deaths == { i \in evolution_defined : df[i].EVOLUCAO = "OBITO" }
    IN  IF evolution_defined = {} THEN Ratio(0, 1)
        ELSE Ratio(Cardinality(deaths) * 100, Cardinality(evolution_defined))

calculate_uti_occupancy_rate(df, start_date, end_date) ==
    LET uti_defined ==
            { i \in period_df(df, start_date, end_date) : df[i].UTI \in {"SIM", "NAO"} }
        uti_cases == { i \in uti_defined : df[i].UTI = "SIM" }
    IN  IF uti_defined = {} THEN Ratio(0, 1)
        ELSE Ratio(Cardinality(uti_cases) * 100, Cardinality(uti_defined))

calculate_vaccination_rate(df, start_date, end_date, vaccine_column) ==
    LET vaccine_defined ==
            { i \in period_df(df, start_date, end_date) :
                df[i][vaccine_column] \in {"SIM", "NAO"} }
        vaccinated_cases == { i \in vaccine_defined : df[i][vaccine_column] = "SIM" }
    IN  IF vaccine_defined = {} THEN Ratio(0, 1)
        ELSE Ratio(Cardinality(vaccinated_cases) * 100, Cardinality(vaccine_defined))

(* The periods of run_metrics_calculation; day is Today's day of the month. *)
last_30_days_start == now - timedelta(30)
previous_30_days_end == last_30_days_start - timedelta(1)
previous_30_days_start == previous_30_days_end - timedelta(30)
last_7_days_start == now - timedelta(7)
previous_7_days_end == last_7_days_start - timedelta(1)
previous_7_days_start == previous_7_days_end - timedelta(7)
current_month_start(day) == 2 * (Today - (day - 1))
last_month_end(day) == current_month_start(day) - timedelta(1)
last_month_start(day) == last_month_end(day) - timedelta(PrevMonthLen - 1)

(* The dict `metrics` that run_metrics_calculation builds and saves. *)
metrics_dict(df, day) ==
    [ increase_rate |->
        [ last_30_days_vs_previous |->
            round2(calculate_increase_rate(df, last_30_days_start, now,
                        previous_30_days_start, previous_30_days_end)),
          last_7_days_vs_previous |->
            round2(calculate_increase_rate(df, last_7_days_start, now,
                        previous_7_days_start, previous_7_days_end)),
          current_month_vs_previous |->
            round2(calculate_increase_rate(df, current_month_start(day), now,
                        last_month_start(day), last_month_end(day))) ],
      mortality_rate |->
        [ last_30_days  |-> round2(calculate_mortality_rate(df, last_30_days_start, now)),
          last_7_days   |-> round2(calculate_mortality_rate(df, last_7_days_start, now)),
          current_month |-> round2(calculate_mortality_rate(df, current_month_start(day), now)) ],
      uti_occupancy_rate |->
        [ last_30_days  |-> round2(calculate_uti_occupancy_rate(df, last_30_days_start, now)),
          last_7_days   |-> round2(calculate_uti_occupancy_rate(df, last_7_days_start, now)),
          current_month |-> round2(calculate_uti_occupancy_rate(df, current_month_start(day), now)) ],
      vaccination_rate_flu |->
        [ last_30_days  |-> round2(calculate_vaccination_rate(df, last_30_days_start, now, "VACINA")),
          last_7_days   |-> round2(calculate_vaccination_rate(df, last_7_days_start, now, "VACINA")),
          current_month |-> round2(calculate_vaccination_rate(df, current_month_start(day), now, "VACINA")) ],
      vaccination_rate_covid |->
        [ last_30_days  |-> round2(calculate_vaccination_rate(df, last_30_days_start, now, "VACINA_COV")),
          last_7_days   |-> round2(calculate_vaccination_rate(df, last_7_days_start, now, "VACINA_COV")),
          current_month |-> round2(calculate_vaccination_rate(df, current_month_start(day), now, "VACINA_COV")) ] ]

----------------------------------------------------------------------------
(* tools/visualizations.py *)

VisualizationsEnv ==
    [ cfg_ok    : BOOLEAN,  \* load_config and the "visualizations_tool" section
      load_ok   : BOOLEAN,  \* the processed CSV is readable
      plot30_ok : BOOLEAN,  \* the 30-day analysis and its savefig raise nothing
      plot12_ok : BOOLEAN,  \* the 12-month analysis and its savefig raise nothing
      saved     : SUBSET {VizMetaPath, Days30Json, Months12Json} ]
                            \* the JSON files _save_json_file manages to write

run_visualization_process(processed_data_file_path, env) ==
    LET s1 == << Step("viz.save_json", 0) >>
        s2 == Append(s1, Step("viz.load", 0))
        s3 == s2 \o << Step("viz.save_json", 30), Step("viz.plot", 30) >>
        s4 == s3 \o << Step("viz.save_json", 12), Step("viz.plot", 12) >>
        w1 == env.saved \cap {VizMetaPath}
        w3 == env.saved \cap {VizMetaPath, Days30Json}
    IN  IF processed_data_file_path = None \/ ~env.load_ok
        THEN Outcome(NoExc, NoneResult, s2, w1)
        ELSE IF ~env.plot30_ok
        THEN Outcome("OSError", NoneResult, s3, w3)
        ELSE IF ~env.plot12_ok
        THEN Outcome("OSError", NoneResult, s4, env.saved \cup {Days30Plot})
        ELSE Outcome(NoExc,
                     Dict([k \in {"last_30_days_json_file_path",
                                  "last_30_days_plot_file_path",
                                  "last_12_months_json_file_path",
                                  "last_12_months_plot_file_path"} |->
                             CASE k = "last_30_days_json_file_path"   -> Days30Json
                               [] k = "last_30_days_plot_file_path"   -> Days30Plot
                               [] k = "last_12_months_json_file_path" -> Months12Json
                               [] OTHER                               -> Months12Plot]),
                     s4, env.saved \cup {Days30Plot, Months12Plot})

----------------------------------------------------------------------------
(* tools/news_collector.py: run_collection_process returns a path or None *)

NewsEnv ==
    [ key_ok  : BOOLEAN,    \* SERPER_API_KEY is set
      cfg_ok  : BOOLEAN,    \* load_config and the "news_config" section
      search  : {"raises", "empty", "no_news", "news"},
                            \* the search raises, returns {}, returns results
                            \* without news items, returns news items
      save_ok : BOOLEAN,    \* the news file can be written
      meta_ok : BOOLEAN ]   \* metadata.json can be written

(* A tool that saves the empty list when the search found no news item. *)
run_collection_process_saves_no_news(env) ==
    LET s1 == << Step("news.search", env.search) >>
        s2 == Append(s1, Step("news.format", 0))
        s3 == Append(s2, Step("news.save", 0))
        s4 == Append(s3, Step("news.save_metadata", 0))
    IN  IF env.search \in {"raises", "empty"}
        THEN [exc |-> NoExc, path |-> None, steps |-> s1, wrote |-> {}]
        ELSE IF ~env.save_ok
        THEN [exc |-> NoExc, path |-> None, steps |-> s3, wrote |-> {}]
        ELSE [exc |-> NoExc, path |-> NewsPath, steps |-> s4,
              wrote |-> {NewsPath} \cup (IF env.meta_ok THEN {NewsMetaPath} ELSE {})]

(* The search step records what the search did (env.search). *)
run_collection_process(env) ==
    LET s1 == << Step("news.search", env.search) >>
        s2 == Append(s1, Step("news.format", 0))
        s3 == Append(s2, Step("news.save", 0))
        s4 == Append(s3, Step("news.save_metadata", 0))
    IN  IF env.search \in {"raises", "empty"}
        THEN [exc |-> NoExc, path |-> None, steps |-> s1, wrote |-> {}]
        ELSE IF env.search = "no_news"
        THEN [exc |-> NoExc, path |-> None, steps |-> s2, wrote |-> {}]
        ELSE IF ~env.save_ok
        THEN [exc |-> NoExc, path |-> None, steps |-> s3, wrote |-> {}]
        ELSE [exc |-> NoExc, path |-> NewsPath, steps |-> s4,
              wrote |-> {NewsPath} \cup (IF env.meta_ok THEN {NewsMetaPath} ELSE {})]

----------------------------------------------------------------------------
(* tools/report_generator.py: run_report_process returns a path or None *)

ReportInputs == {"metrics", "last_30_days", "last_12_months", "news"}

ReportEnv ==
    [ key_ok    : BOOLEAN,  \* OPENAI_API_KEY is set
      cfg_ok    : BOOLEAN,  \* load_config and the "report_generator_config" section
      prompt_ok : BOOLEAN,  \* the prompt template is readable and not empty
      readable  : SUBSET ReportInputs,
                            \* the input files that exist and hold valid JSON
      llm_ok    : BOOLEAN,  \* the chat completion returns a non-empty text
      save_ok   : BOOLEAN,  \* the report file can be written
      meta_ok   : BOOLEAN ] \* metadata.json can be written

(* _load_data_file: the content, or None when the file cannot be read. *)
load_data_file(path, role, env) ==
    IF path # None /\ role \in env.readable THEN "content" ELSE None

(* _build_prompt: the prompt, or None.  The two visualization contents are *)
(* both read from last_12_months_json_file_path (lines 83-88).             *)
build_prompt(metrics_path, days30_path, months12_path, news_path, env) ==
    IF ~env.prompt_ok THEN None
    ELSE LET metrics_content    == load_data_file(metrics_path, "metrics", env)
             viz_months_content == load_data_file(months12_path, "last_12_months", env)
             viz_days_content   == load_data_file(months12_path, "last_12_months", env)
             news_content       == load_data_file(news_path, "news", env)
         IN  IF None \in {metrics_content, viz_months_content,
                          viz_days_content, news_content}
             THEN None ELSE "prompt"

(* The steps of _build_prompt: the template is loaded, then the data files *)
(* are opened one after the other, whatever the outcome of each.           *)
build_prompt_steps(metrics_path, days30_path, months12_path, news_path, env) ==
    << Step("report.build_prompt", 0) >> \o
    (IF ~env.prompt_ok THEN << >>
     ELSE << Step("report.read", metrics_path), Step("report.read", months12_path),
             Step("report.read", months12_path), Step("report.read", news_path) >>)

(* A tool that sends whatever _build_prompt returned to the LLM. *)
run_report_process_sends_no_prompt(metrics_path, days30_path, months12_path, news_path, env) ==
    LET s1 == build_prompt_steps(metrics_path, days30_path, months12_path, news_path, env)
        s2 == Append(s1, Step("report.generate", 0))
        s3 == Append(s2, Step("report.save", 0))
        s4 == Append(s3, Step("report.save_metadata", 0))
    IN  IF build_prompt(metrics_path, days30_path, months12_path, news_path, env) = None
           \/ ~env.llm_ok
        THEN [exc |-> NoExc, path |-> None, steps |-> s2, wrote |-> {}]
        ELSE IF ~env.save_ok
        THEN [exc |-> NoExc, path |-> None, steps |-> s3, wrote |-> {}]
        ELSE [exc |-> NoExc, path |-> ReportPath, steps |-> s4,
              wrote |-> {ReportPath} \cup (IF env.meta_ok THEN {ReportMetaPath} ELSE {})]

run_report_process(metrics_path, days30_path, months12_path, news_path, env) ==
    LET s1 == build_prompt_steps(metrics_path, days30_path, months12_path, news_path, env)
        s2 == Append(s1, Step("report.generate", 0))
        s3 == Append(s2, Step("report.save", 0))
        s4 == Append(s3, Step("report.save_metadata", 0))
    IN  IF build_prompt(metrics_path, days30_path, months12_path, news_path, env) = None
        THEN [exc |-> NoExc, path |-> None, steps |-> s1, wrote |-> {}]
        ELSE IF ~env.llm_ok
        THEN [exc |-> NoExc, path |-> None, steps |-> s2, wrote |-> {}]
        ELSE IF ~env.save_ok
        THEN [exc |-> NoExc, path |-> None, steps |-> s3, wrote |-> {}]
        ELSE [exc |-> NoExc, path |-> ReportPath, steps |-> s4,
              wrote |-> {ReportPath} \cup (IF env.meta_ok THEN {ReportMetaPath} ELSE {})]

----------------------------------------------------------------------------
(* tools/final_report_generator.py: run_generation_process returns a path  *)
(* or None; every exception is caught by its try block.                    *)

FinalInputs == {"metadata", "metrics", "periods", "report"}

FinalEnv ==
    [ cfg_ok      : BOOLEAN,    \* load_config and the "final_report_config" section
      template_ok : BOOLEAN,    \* the HTML template is readable
      readable    : SUBSET FinalInputs,     \* the input files that can be read
      write_ok    : BOOLEAN,    \* the HTML file can be written
      pdf         : {"ok", "build_fails", "parse_raises"} ]
                                \* the PDF is built; doc.build raises (swallowed);
                                \* the HTML analysis before doc.build raises

run_generation_process(metadata_path, periods_path, metrics_path, report_path, plot30_path, plot12_path, env) ==
    LET s1 == << Step("final.read_template", 0) >>
        s2 == Append(s1, Step("final.get_replacements", 0))
        s3 == Append(s2, Step("final.replace", 0))
        s4 == Append(s3, Step("final.write_html", 0))
        s5 == Append(s4, Step("final.pdf", 0))
        inputs_ok ==
            /\ metadata_path # None /\ "metadata" \in env.readable
            /\ metrics_path  # None /\ "metrics"  \in env.readable
            /\ periods_path  # None /\ "periods"  \in env.readable
            /\ report_path   # None /\ "report"   \in env.readable
    IN  IF ~env.template_ok
        THEN [exc |-> NoExc, path |-> None, steps |-> s1, wrote |-> {}]
        ELSE IF ~inputs_ok
        THEN [exc |-> NoExc, path |-> None, steps |-> s2, wrote |-> {}]
        ELSE IF plot30_path = None \/ plot12_path = None
        THEN [exc |-> NoExc, path |-> None, steps |-> s3, wrote |-> {}]
        ELSE IF ~env.write_ok
        THEN [exc |-> NoExc, path |-> None, steps |-> s4, wrote |-> {}]
        ELSE IF env.pdf = "parse_raises"
        THEN [exc |-> NoExc, path |-> None, steps |-> s5, wrote |-> {FinalHtmlPath}]
        ELSE [exc |-> NoExc, path |-> FinalHtmlPath, steps |-> s5,
              wrote |-> {FinalHtmlPath} \cup
                        (IF env.pdf = "ok" THEN {FinalPdfPath} ELSE {})]

----------------------------------------------------------------------------
(* src/agents: __init__ builds the tool and re-raises its ValueError; run  *)
(* returns the tool's dict (or wraps its path in a dict) when the result   *)
(* is truthy, None otherwise.                                              *)

InitError == Outcome("ValueError", NoneResult, << >>, {})

(* An agent whose tool returns a dict (downloader, preprocessor, metrics,  *)
(* visualizations): `if result: return result else: return None`.          *)
AgentReturnsDict(t) ==
    IF t.exc # NoExc THEN Outcome(t.exc, NoneResult, t.steps, t.wrote)
    ELSE IF ~t.ret.none /\ DOMAIN t.ret.val # {} THEN t
    ELSE Outcome(NoExc, NoneResult, t.steps, t.wrote)

(* An agent whose tool returns a path (news, report, final report):        *)
(* `if path: return {key: path} else: return None`.                        *)
AgentWrapsPath(t, key) ==
    IF t.exc # NoExc THEN Outcome(t.exc, NoneResult, t.steps, t.wrote)
    ELSE IF t.path # None
    THEN Outcome(NoExc, Dict([k \in {key} |-> t.path]), t.steps, t.wrote)
    ELSE Outcome(NoExc, NoneResult, t.steps, t.wrote)

DataDownloaderAgent(env) ==
    IF ~env.cfg_ok THEN InitError
    ELSE AgentReturnsDict(run_download_process(env))

DataPreprocessorAgent(downloaded_file_path, env) ==
    IF ~env.cfg_ok THEN InitError
    ELSE AgentReturnsDict(run_preprocessing_process(downloaded_file_path, env))

MetricsCalculatorAgent(processed_data_file_path, env) ==
    IF ~env.cfg_ok THEN InitError
    ELSE AgentReturnsDict(run_metrics_calculation(processed_data_file_path, env))

VisualizationsAgent(processed_data_file_path, env) ==
    IF ~env.cfg_ok THEN InitError
    ELSE AgentReturnsDict(run_visualization_process(processed_data_file_path, env))

(* A news agent whose tool checks its configuration after the search. *)
NewsCollectorAgentChecksLate(env) ==
    IF ~env.key_ok \/ ~env.cfg_ok
    THEN Outcome("ValueError", NoneResult, run_collection_process(env).steps,
                 run_collection_process(env).wrote)
    ELSE AgentWrapsPath(run_collection_process(env), "news_file_path")

NewsCollectorAgent(env) ==
    IF ~env.key_ok \/ ~env.cfg_ok THEN InitError
    ELSE AgentWrapsPath(run_collection_process(env), "news_file_path")

ReportGeneratorAgent(metrics_path, days30_path, months12_path, news_path, env) ==
    IF ~env.key_ok \/ ~env.cfg_ok THEN InitError
    ELSE AgentWrapsPath(
            run_report_process(metrics_path, days30_path, months12_path, news_path, env),
            "report_file_path")

(* A final-report agent that returns the key its docstring names. *)
FinalReportGeneratorAgentDocKey(metadata_path, periods_path, metrics_path, report_path, plot30_path, plot12_path, env) ==
    IF ~env.cfg_ok THEN InitError
    ELSE AgentWrapsPath(
            run_generation_process(metadata_path, periods_path, metrics_path,
                                   report_path, plot30_path, plot12_path, env),
            "final_report_path")

FinalReportGeneratorAgent(metadata_path, periods_path, metrics_path, report_path, plot30_path, plot12_path, env) ==
    IF ~env.cfg_ok THEN InitError
    ELSE AgentWrapsPath(
            run_generation_process(metadata_path, periods_path, metrics_path,
                                   report_path, plot30_path, plot12_path, env),
            "final_report_file_path")

----------------------------------------------------------------------------
(* src/graph.py: the nodes *)

(* A node's assignments `state[target] = result[source]`, in order. *)
Assign(target, source) == [target |-> target, source |-> source]

Same(keys) == [i \in 1..Len(keys) |-> Assign(keys[i], keys[i])]

NodeAssigns(n) ==
    CASE n = "data_downloader"   ->
            Same(<< "downloaded_file_path", "metadata_file_path" >>)
      [] n = "data_preprocessor" ->
            Same(<< "processed_data_file_path" >>)
      [] n = "metrics_calculator" ->
            Same(<< "periods_file_path", "metrics_file_path" >>)
      [] n = "visualizations"    ->
            Same(<< "last_30_days_json_file_path", "last_30_days_plot_file_path",
                    "last_12_months_json_file_path", "last_12_months_plot_file_path" >>)
      [] n = "news_collector"    ->
            Same(<< "news_file_path" >>)
      [] n = "report_generator"  ->
            Same(<< "report_file_path" >>)
      [] n = "final_report_generator" ->
            Same(<< "final_report_file_path" >>)

(* The keys a node assigns, and the keys it reads from its agent's result. *)
NodeWrites(n)  == { NodeAssigns(n)[i].target : i \in 1..Len(NodeAssigns(n)) }
NodeSources(n) == { NodeAssigns(n)[i].source : i \in 1..Len(NodeAssigns(n)) }

(* The keys a node reads from the state with state.get for its agent. *)
NodeReads(n) ==
    CASE n = "data_downloader"   -> {}
      [] n = "data_preprocessor" -> {"downloaded_file_path"}
      [] n = "metrics_calculator" -> {"processed_data_file_path"}
      [] n = "visualizations"    -> {"processed_data_file_path"}
      [] n = "news_collector"    -> {}
      [] n = "report_generator"  ->
            {"metrics_file_path", "last_30_days_json_file_path",
             "last_12_months_json_file_path", "news_file_path"}
      [] n = "final_report_generator" ->
            {"metadata_file_path", "periods_file_path", "metrics_file_path",
             "report_file_path", "last_30_days_plot_file_path",
             "last_12_months_plot_file_path"}

(* The exception a node body ends with, given its agent's outcome a: the   *)
(* agent's own exception; TypeError when the node subscripts a None        *)
(* result; KeyError when the result lacks a key the node reads.            *)
NodeException(n, a) ==
    IF a.exc # NoExc THEN a.exc
    ELSE IF a.ret.none THEN "TypeError"
    ELSE IF \E k \in NodeSources(n) : k \notin DOMAIN a.ret.val THEN "KeyError"
    ELSE NoExc

(* The last value assigned to key k by the assignments i..Len, if any. *)
RECURSIVE Assigned(_, _, _, _, _)
Assigned(as, i, k, val, old) ==
    IF i > Len(as) THEN old
    ELSE Assigned(as, i + 1, k, val,
                  IF as[i].target = k THEN val[as[i].source] ELSE old)

(* The visualization node without its last assignment. *)
NodeUpdateDropsKey(n, a, st) ==
    [k \in Keys |->
        IF n = "visualizations" /\ k = "last_12_months_plot_file_path" THEN st[k]
        ELSE Assigned(NodeAssigns(n), 1, k, a.ret.val, st[k])]

(* The metrics node assigning periods_file_path from the wrong result key. *)
NodeUpdateWrongSource(n, a, st) ==
    [k \in Keys |->
        IF n = "metrics_calculator" /\ k = "periods_file_path"
        THEN a.ret.val["metrics_file_path"]
        ELSE Assigned(NodeAssigns(n), 1, k, a.ret.val, st[k])]

(* The final report node assigning its result to report_file_path as well. *)
NodeUpdateOverwrites(n, a, st) ==
    [k \in Keys |->
        IF n = "final_report_generator" /\ k = "report_file_path"
        THEN a.ret.val["final_report_file_path"]
        ELSE Assigned(NodeAssigns(n), 1, k, a.ret.val, st[k])]

(* The channels after node n returned its state. *)
NodeUpdate(n, a, st) ==
    [k \in Keys |-> Assigned(NodeAssigns(n), 1, k, a.ret.val, st[k])]

(* A graph that logs a node's exception and goes on with its successors. *)
NodeRaisesAndContinues(n, exc) ==
    /\ raised' = exc
    /\ status' = [status EXCEPT ![n] = "Failed"]
    /\ frontier' = (frontier \ {n}) \cup Successors(n)
    /\ UNCHANGED <<state, phase, writers>>

(* A graph that runs a node again when it raised. *)
NodeRaisesAndRetries(n, exc) ==
    /\ raised' = exc
    /\ status' = [status EXCEPT ![n] = "Pending"]
    /\ UNCHANGED <<state, phase, frontier, writers>>

(* What graph.invoke does with an exception raised by a node: nothing.     *)
(* It propagates out of invoke and out of run; the channels keep the       *)
(* values of the last completed step and no further node is scheduled.     *)
NodeRaises(n, exc) ==
    /\ raised' = exc
    /\ phase' = "aborted"
    /\ status' = [status EXCEPT ![n] = "Failed"]
    /\ UNCHANGED <<state, frontier, writers>>

(* A node returned: its writes are applied and its successors are next. *)
NodeReturns(n, a) ==
    /\ state' = NodeUpdate(n, a, state)
    /\ status' = [status EXCEPT ![n] = "Succeeded"]
    /\ frontier' = (frontier \ {n}) \cup Successors(n)
    /\ writers' = [k \in Keys |->
                     IF k \in NodeWrites(n) THEN writers[k] \cup {n}
                     ELSE writers[k]]
    /\ UNCHANGED <<raised, phase>>

(* The body of a node the graph has invoked, given the outcome a of        *)
(* building and running its agent.                                         *)
RunNode(n, a) ==
    /\ phase = "running"
    /\ status[n] = "Running"
    /\ work' = a.steps
    /\ trace' = trace \o a.steps
    /\ files' = files \cup a.wrote
    /\ outcome' = [outcome EXCEPT ![n] = {a}]
    /\ IF NodeException(n, a) # NoExc
       THEN NodeRaises(n, NodeException(n, a))
       ELSE NodeReturns(n, a)
    /\ UNCHANGED <<returned, invoked, before, previous, cli, frame, metrics>>

(* What a node's agent may do, over everything its collaborators may do:  *)
(* the node builds the agent on the keys it reads with state.get and calls *)
(* agent.run().                                                            *)
Outcomes(n) ==
    CASE n = "data_downloader" ->
            { DataDownloaderAgent(env) : env \in DownloaderEnv }
      [] n = "data_preprocessor" ->
            { DataPreprocessorAgent(Get(state, "downloaded_file_path"), env) :
                env \in PreprocessorEnv }
      [] n = "metrics_calculator" ->
            { MetricsCalculatorAgent(Get(state, "processed_data_file_path"), env) :
                env \in MetricsEnv }
      [] n = "visualizations" ->
            { VisualizationsAgent(Get(state, "processed_data_file_path"), env) :
                env \in VisualizationsEnv }
      [] n = "news_collector" ->
            { NewsCollectorAgent(env) : env \in NewsEnv }
      [] n = "report_generator" ->
            { ReportGeneratorAgent(Get(state, "metrics_file_path"),
                                   Get(state, "last_30_days_json_file_path"),
                                   Get(state, "last_12_months_json_file_path"),
                                   Get(state, "news_file_path"), env) :
                env \in ReportEnv }
      [] n = "final_report_generator" ->
            { FinalReportGeneratorAgent(Get(state, "metadata_file_path"),
                                        Get(state, "periods_file_path"),
                                        Get(state, "metrics_file_path"),
                                        Get(state, "report_file_path"),
                                        Get(state, "last_30_days_plot_file_path"),
                                        Get(state, "last_12_months_plot_file_path"),
                                        env) :
                env \in FinalEnv }

node_data_downloader ==
    /\ "data_downloader" \in frontier
    /\ \E a \in Outcomes("data_downloader") : RunNode("data_downloader", a)

node_data_preprocessor ==
    /\ "data_preprocessor" \in frontier
    /\ \E a \in Outcomes("data_preprocessor") : RunNode("data_preprocessor", a)

node_metrics_calculator ==
    /\ "metrics_calculator" \in frontier
    /\ \E a \in Outcomes("metrics_calculator") : RunNode("metrics_calculator", a)

node_visualizations ==
    /\ "visualizations" \in frontier
    /\ \E a \in Outcomes("visualizations") : RunNode("visualizations", a)

node_news_collector ==
    /\ "news_collector" \in frontier
    /\ \E a \in Outcomes("news_collector") : RunNode("news_collector", a)

node_report_generator ==
    /\ "report_generator" \in frontier
    /\ \E a \in Outcomes("report_generator") : RunNode("report_generator", a)

node_final_report_generator ==
    /\ "final_report_generator" \in frontier
    /\ \E a \in Outcomes("final_report_generator") : RunNode("final_report_generator", a)

----------------------------------------------------------------------------
(* src/graph.py: the compiled graph and run *)

(* The entry point: no program (run() is called by some other caller), or *)
(* main.py or old_main.py at a position of its code.                       *)
Program(prog, at) == [prog |-> prog, at |-> at]

NoProgram == Program("none", "none")

(* No data frame loaded: an empty frame on the first day of a month. *)
NoFrame == [df |-> << >>, day |-> 1]

(* After construction: the graph is compiled, run has not been called. *)
Init ==
    /\ phase = "idle"
    /\ frontier = {}
    /\ status = [n \in NodeSet |-> "Pending"]
    /\ state = EmptyState
    /\ raised = NoExc
    /\ returned = {}
    /\ invoked = << >>
    /\ before = EmptyState
    /\ work = << >>
    /\ trace = << >>
    /\ files = {}
    /\ writers = [k \in Keys |-> {}]
    /\ outcome = [m \in NodeSet |-> {}]
    /\ previous = {}
    /\ cli = NoProgram
    /\ frame = NoFrame
    /\ metrics = {}

(* A run() that hands graph.invoke the state the channels hold already. *)
initial_state_left_over == state

(* run(): initial_state = {}. *)
initial_state == EmptyState

(* graph.invoke({}) starts at the entry point with an empty state. *)
invoke ==
    /\ phase = "idle"
    /\ phase' = "running"
    /\ state' = initial_state
    /\ frontier' = {EntryPoint}
    /\ UNCHANGED <<status, raised, returned, invoked, before, work, trace,
                   files, writers, outcome, previous, frame, metrics>>

(* run(), called by something other than the two entry points. *)
Run ==
    /\ cli = NoProgram
    /\ invoke
    /\ UNCHANGED cli

(* The graph hands the current state to the next node of the frontier. *)
Invoke(n) ==
    /\ phase = "running"
    /\ n \in frontier
    /\ n \in NodeSet
    /\ status[n] = "Pending"
    /\ status' = [status EXCEPT ![n] = "Running"]
    /\ invoked' = Append(invoked, n)
    /\ before' = state
    /\ work' = << >>
    /\ UNCHANGED <<phase, frontier, state, raised, returned, trace, files, writers,
                   outcome, previous, cli, frame, metrics>>

(* The chain reached END: invoke returns the channels and run returns them. *)
Return ==
    /\ phase = "running"
    /\ frontier = {END}
    /\ phase' = "completed"
    /\ returned' = {state}
    /\ UNCHANGED <<frontier, status, state, raised, invoked, before, work,
                   trace, files, writers, outcome, previous, cli, frame, metrics>>

Schedule == \E n \in NodeSet : Invoke(n)

Next ==
    \/ Run
    \/ Schedule
    \/ node_data_downloader
    \/ node_data_preprocessor
    \/ node_metrics_calculator
    \/ node_visualizations
    \/ node_news_collector
    \/ node_report_generator
    \/ node_final_report_generator
    \/ Return

Spec == Init /\ [][Next]_vars

----------------------------------------------------------------------------
(* run() as a program that keeps executing: graph.invoke runs the nodes in *)
(* one thread, each call of a collaborator returns, so that a step that    *)
(* can be taken is eventually taken.                                       *)
SpecLive == Init /\ [][Next]_vars /\ WF_vars(Next)

----------------------------------------------------------------------------

(* A node called directly, `_node_x(state)`, on a state in which some of   *)
(* the keys it reads are missing or None while every other key an earlier  *)
(* node of the chain assigns holds its path; the graph then goes on from   *)
(* that node.                                                              *)

PathOf(k) ==
    CASE k = "downloaded_file_path"          -> RawPath
      [] k = "metadata_file_path"            -> RawMetaPath
      [] k = "processed_data_file_path"      -> ProcessedPath
      [] k = "periods_file_path"             -> PeriodsPath
      [] k = "metrics_file_path"             -> MetricsPath
      [] k = "last_30_days_json_file_path"   -> Days30Json
      [] k = "last_30_days_plot_file_path"   -> Days30Plot
      [] k = "last_12_months_json_file_path" -> Months12Json
      [] k = "last_12_months_plot_file_path" -> Months12Plot
      [] k = "news_file_path"                -> NewsPath
      [] k = "report_file_path"              -> ReportPath
      [] k = "final_report_file_path"        -> FinalHtmlPath

Pos(n) == CHOOSE i \in 1..Len(Nodes) : Nodes[i] = n

WrittenBefore(n) == UNION { NodeWrites(Nodes[i]) : i \in 1..(Pos(n) - 1) }

StageInput(n, absent, null) ==
    [k \in Keys |->
        IF k \in absent THEN Absent
        ELSE IF k \in null THEN None
        ELSE IF k \in WrittenBefore(n) THEN PathOf(k)
        ELSE Absent]

InitStage ==
    \E n \in NodeSet :
      \E absent \in SUBSET NodeReads(n) :
        \E null \in SUBSET (NodeReads(n) \ absent) :
            /\ phase = "running"
            /\ frontier = {n}
            /\ status = [m \in NodeSet |-> IF m = n THEN "Running" ELSE "Pending"]
            /\ state = StageInput(n, absent, null)
            /\ raised = NoExc
            /\ returned = {}
            /\ invoked = << n >>
            /\ before = StageInput(n, absent, null)
            /\ work = << >>
            /\ trace = << >>
            /\ files = {}
            /\ writers = [k \in Keys |-> {}]
            /\ outcome = [m \in NodeSet |-> {}]
            /\ previous = {}
            /\ cli = NoProgram
            /\ frame = NoFrame
            /\ metrics = {}

NextStage ==
    \/ Schedule
    \/ node_data_downloader
    \/ node_data_preprocessor
    \/ node_metrics_calculator
    \/ node_visualizations
    \/ node_news_collector
    \/ node_report_generator
    \/ node_final_report_generator
    \/ Return

SpecStage == InitStage /\ [][NextStage]_vars

----------------------------------------------------------------------------
(* run() called a second time, after the first call returned or raised,    *)
(* with collaborators that behave as in the first call: the agent of a     *)
(* node that ran in the first call does now what it did then.              *)

(* What a call of run() did. *)
RunRecord ==
    [ phase |-> phase, raised |-> raised, returned |-> returned,
      invoked |-> invoked, status |-> status, state |-> state,
      outcome |-> outcome ]

(* The second call: graph.invoke starts again from initial_state at the    *)
(* entry point; the files written by the first call stay on disk.          *)
RunAgain ==
    /\ phase \in {"completed", "aborted"}
    /\ previous = {}
    /\ previous' = {RunRecord}
    /\ phase' = "running"
    /\ state' = initial_state
    /\ frontier' = {EntryPoint}
    /\ status' = [m \in NodeSet |-> "Pending"]
    /\ raised' = NoExc
    /\ returned' = {}
    /\ invoked' = << >>
    /\ before' = EmptyState
    /\ work' = << >>
    /\ trace' = << >>
    /\ writers' = [k \in Keys |-> {}]
    /\ outcome' = [m \in NodeSet |-> {}]
    /\ UNCHANGED <<files, cli, frame, metrics>>

(* What the agent of node n does: what it did in the previous call when   *)
(* it ran then, anything its collaborators allow (fresh) otherwise.        *)
Replayed(n, fresh) ==
    IF \E r \in previous : r.outcome[n] # {}
    THEN UNION { r.outcome[n] : r \in previous }
    ELSE fresh

again_data_downloader ==
    /\ "data_downloader" \in frontier
    /\ \E a \in Replayed("data_downloader", Outcomes("data_downloader")) : RunNode("data_downloader", a)

again_data_preprocessor ==
    /\ "data_preprocessor" \in frontier
    /\ \E a \in Replayed("data_preprocessor", Outcomes("data_preprocessor")) : RunNode("data_preprocessor", a)

again_metrics_calculator ==
    /\ "metrics_calculator" \in frontier
    /\ \E a \in Replayed("metrics_calculator", Outcomes("metrics_calculator")) : RunNode("metrics_calculator", a)

again_visualizations ==
    /\ "visualizations" \in frontier
    /\ \E a \in Replayed("visualizations", Outcomes("visualizations")) : RunNode("visualizations", a)

again_news_collector ==
    /\ "news_collector" \in frontier
    /\ \E a \in Replayed("news_collector", Outcomes("news_collector")) : RunNode("news_collector", a)

again_report_generator ==
    /\ "report_generator" \in frontier
    /\ \E a \in Replayed("report_generator", Outcomes("report_generator")) : RunNode("report_generator", a)

again_final_report_generator ==
    /\ "final_report_generator" \in frontier
    /\ \E a \in Replayed("final_report_generator", Outcomes("final_report_generator")) : RunNode("final_report_generator", a)

NextTwice ==
    \/ Run
    \/ RunAgain
    \/ Schedule
    \/ again_data_downloader
    \/ again_data_preprocessor
    \/ again_metrics_calculator
    \/ again_visualizations
    \/ again_news_collector
    \/ again_report_generator
    \/ again_final_report_generator
    \/ Return

SpecTwice == Init /\ [][NextTwice]_vars

----------------------------------------------------------------------------
(* src/main.py and src/old_main.py: the command-line entry points.         *)
(* main.py builds the workflow and calls run() outside any try block, then *)
(* logs the state run() returned.  old_main.py is the same chain written   *)
(* with local variables inside one try block: each agent is built and run  *)
(* and its result subscripted, as the nodes of graph.py do; its two except *)
(* clauses log the exception.                                              *)

Programs == {"main", "old_main"}

InitMain ==
    /\ phase = "idle"
    /\ frontier = {}
    /\ status = [n \in NodeSet |-> "Pending"]
    /\ state = EmptyState
    /\ raised = NoExc
    /\ returned = {}
    /\ invoked = << >>
    /\ before = EmptyState
    /\ work = << >>
    /\ trace = << >>
    /\ files = {}
    /\ writers = [k \in Keys |-> {}]
    /\ outcome = [m \in NodeSet |-> {}]
    /\ previous = {}
    /\ cli \in { Program(p, "start") : p \in Programs }
    /\ frame = NoFrame
    /\ metrics = {}

(* main.py: workflow_manager.run(). *)
main_calls_run ==
    /\ cli = Program("main", "start")
    /\ invoke
    /\ cli' = Program("main", "in_run")

(* main.py after run() returned: the final state is logged key by key. *)
main_logs_final_state ==
    /\ cli = Program("main", "in_run")
    /\ phase = "completed"
    /\ cli' = Program("main", "logged_final_state")
    /\ UNCHANGED <<phase, frontier, status, state, raised, returned, invoked,
                   before, work, trace, files, writers, outcome, previous, frame, metrics>>

(* main.py when run() raised: no handler, the exception ends the program.  *)
main_unhandled_exception ==
    /\ cli = Program("main", "in_run")
    /\ phase = "aborted"
    /\ cli' = Program("main", "unhandled_exception")
    /\ UNCHANGED <<phase, frontier, status, state, raised, returned, invoked,
                   before, work, trace, files, writers, outcome, previous, frame, metrics>>

(* old_main.py: main() enters its try block. *)
old_main_try ==
    /\ cli = Program("old_main", "start")
    /\ invoke
    /\ cli' = Program("old_main", "in_try")

(* old_main.py: the try block ran to its end; each path was printed. *)
old_main_ends ==
    /\ cli = Program("old_main", "in_try")
    /\ phase = "completed"
    /\ cli' = Program("old_main", "printed_paths")
    /\ UNCHANGED <<phase, frontier, status, state, raised, returned, invoked,
                   before, work, trace, files, writers, outcome, previous, frame, metrics>>

(* old_main.py: except ValueError / except Exception, both logging.error. *)
old_main_except ==
    /\ cli = Program("old_main", "in_try")
    /\ phase = "aborted"
    /\ cli' = Program("old_main", IF raised = "ValueError" THEN "logged_cannot_run"
                                  ELSE "logged_unexpected_error")
    /\ UNCHANGED <<phase, frontier, status, state, raised, returned, invoked,
                   before, work, trace, files, writers, outcome, previous, frame, metrics>>

NextMain ==
    \/ main_calls_run
    \/ old_main_try
    \/ Schedule
    \/ node_data_downloader
    \/ node_data_preprocessor
    \/ node_metrics_calculator
    \/ node_visualizations
    \/ node_news_collector
    \/ node_report_generator
    \/ node_final_report_generator
    \/ Return
    \/ main_logs_final_state
    \/ main_unhandled_exception
    \/ old_main_ends
    \/ old_main_except

SpecMain == InitMain /\ [][NextMain]_vars

----------------------------------------------------------------------------
(* src/old_main.py next to src/graph.py: main() runs first, then the       *)
(* workflow's run(), with agents that behave in run() as they did in       *)
(* main() when they are built on the same arguments.  The whole of main()  *)
(* is kept in cli: its position, its local variables (Absent when          *)
(* unbound), the agents it built with their arguments and what they did,   *)
(* and the exception its except clauses caught.                            *)

(* A stage of main(): the agent class, its keyword arguments (parameter -> *)
(* local variable) and the locals assigned from result[...], in order.     *)
OldStage(agent, args, assigns) == [agent |-> agent, args |-> args, assigns |-> assigns]

old_main_stages ==
    << OldStage("DataDownloaderAgent", << >>,
                << "downloaded_file_path", "metadata_file_path" >>),
       OldStage("DataPreprocessorAgent",
                [downloaded_file_path |-> "downloaded_file_path"],
                << "processed_data_file_path" >>),
       OldStage("MetricsCalculatorAgent",
                [processed_data_file_path |-> "processed_data_file_path"],
                << "periods_file_path", "metrics_file_path" >>),
       OldStage("VisualizationsAgent",
                [processed_data_file_path |-> "processed_data_file_path"],
                << "last_30_days_json_file_path", "last_30_days_plot_file_path",
                   "last_12_months_json_file_path", "last_12_months_plot_file_path" >>),
       OldStage("NewsCollectorAgent", << >>, << "news_file_path" >>),
       OldStage("ReportGeneratorAgent",
                [metrics_file_path |-> "metrics_file_path",
                 last_30_days_json_file_path |-> "last_30_days_json_file_path",
                 last_12_months_json_file_path |-> "last_12_months_json_file_path",
                 news_file_path |-> "news_file_path"],
                << "report_file_path" >>),
       OldStage("FinalReportGeneratorAgent",
                [metadata_file_path |-> "metadata_file_path",
                 periods_file_path |-> "periods_file_path",
                 metrics_file_path |-> "metrics_file_path",
                 report_file_path |-> "report_file_path",
                 last_30_days_plot_file_path |-> "last_30_days_plot_file_path",
                 last_12_months_plot_file_path |-> "last_12_months_plot_file_path"],
                << "final_report_file_path" >>) >>

(* What an agent of the given class may do when built on the keyword       *)
(* arguments v, over everything its collaborators may do.                  *)
AgentOutcomes(agent, v) ==
    CASE agent = "DataDownloaderAgent" ->
            { DataDownloaderAgent(env) : env \in DownloaderEnv }
      [] agent = "DataPreprocessorAgent" ->
            { DataPreprocessorAgent(v.downloaded_file_path, env) : env \in PreprocessorEnv }
      [] agent = "MetricsCalculatorAgent" ->
            { MetricsCalculatorAgent(v.processed_data_file_path, env) : env \in MetricsEnv }
      [] agent = "VisualizationsAgent" ->
            { VisualizationsAgent(v.processed_data_file_path, env) : env \in VisualizationsEnv }
      [] agent = "NewsCollectorAgent" ->
            { NewsCollectorAgent(env) : env \in NewsEnv }
      [] agent = "ReportGeneratorAgent" ->
            { ReportGeneratorAgent(v.metrics_file_path, v.last_30_days_json_file_path,
                                   v.last_12_months_json_file_path, v.news_file_path, env) :
                env \in ReportEnv }
      [] agent = "FinalReportGeneratorAgent" ->
            { FinalReportGeneratorAgent(v.metadata_file_path, v.periods_file_path,
                                        v.metrics_file_path, v.report_file_path,
                                        v.last_30_days_plot_file_path,
                                        v.last_12_months_plot_file_path, env) :
                env \in FinalEnv }

(* The values of the locals passed as keyword arguments. *)
OldArguments(s, locals) == [p \in DOMAIN s.args |-> locals[s.args[p]]]

(* A main() that goes on to the next stage when an agent returned None. *)
OldMainExceptionSkipsNone(s, a) ==
    IF a.exc # NoExc THEN a.exc
    ELSE IF a.ret.none THEN NoExc
    ELSE IF \E i \in 1..Len(s.assigns) : s.assigns[i] \notin DOMAIN a.ret.val
    THEN "KeyError"
    ELSE NoExc

(* The exception a stage of main() ends with, given its agent's outcome a: *)
(* the agent's own; TypeError when result is None; KeyError when result    *)
(* lacks a key.                                                            *)
OldMainException(s, a) ==
    IF a.exc # NoExc THEN a.exc
    ELSE IF a.ret.none THEN "TypeError"
    ELSE IF \E i \in 1..Len(s.assigns) : s.assigns[i] \notin DOMAIN a.ret.val
    THEN "KeyError"
    ELSE NoExc

(* The locals after `x = result["x"]` for each x of assigns, up to the     *)
(* first subscript that raises.                                            *)
OldAssign(locals, assigns, val) ==
    [k \in Keys |->
        IF \E j \in 1..Len(assigns) :
              /\ assigns[j] = k
              /\ \A m \in 1..j : assigns[m] \in DOMAIN val
        THEN val[k] ELSE locals[k]]

OldMain(at, stage, locals, ran, exc) ==
    [prog |-> "old_main", at |-> at, stage |-> stage, locals |-> locals,
     ran |-> ran, exc |-> exc]

(* Where main() is after a stage ended with exception exc (NoExc: none). *)
OldMainAt(stage, exc) ==
    IF exc = "ValueError" THEN "logged_cannot_run"
    ELSE IF exc # NoExc THEN "logged_unexpected_error"
    ELSE IF stage = Len(old_main_stages) THEN "printed_paths"
    ELSE "in_try"

(* main() after the agent of stage s, built on arguments v, did a. *)
OldMainAfter(s, v, a) ==
    OldMain(OldMainAt(cli.stage, OldMainException(s, a)),
            IF OldMainException(s, a) = NoExc THEN cli.stage + 1 ELSE cli.stage,
            IF a.exc = NoExc /\ ~a.ret.none
            THEN OldAssign(cli.locals, s.assigns, a.ret.val) ELSE cli.locals,
            Append(cli.ran, [agent |-> s.agent, args |-> v, a |-> a]),
            OldMainException(s, a))

InitBoth ==
    /\ phase = "idle"
    /\ frontier = {}
    /\ status = [n \in NodeSet |-> "Pending"]
    /\ state = EmptyState
    /\ raised = NoExc
    /\ returned = {}
    /\ invoked = << >>
    /\ before = EmptyState
    /\ work = << >>
    /\ trace = << >>
    /\ files = {}
    /\ writers = [k \in Keys |-> {}]
    /\ outcome = [m \in NodeSet |-> {}]
    /\ previous = {}
    /\ cli = OldMain("in_try", 1, EmptyState, << >>, NoExc)
    /\ frame = NoFrame
    /\ metrics = {}

(* One stage of main(): the agent is built on the locals and run, and its  *)
(* result is subscripted; a local that is not bound raises NameError.      *)
old_main_stage ==
    /\ cli.prog = "old_main"
    /\ cli.at = "in_try"
    /\ cli.stage \in 1..Len(old_main_stages)
    /\ LET s == old_main_stages[cli.stage]
           v == OldArguments(s, cli.locals)
       IN  IF \E p \in DOMAIN v : v[p] = Absent
           THEN /\ cli' = [cli EXCEPT !.at = "logged_unexpected_error",
                                      !.exc = "NameError"]
                /\ UNCHANGED files
           ELSE \E a \in AgentOutcomes(s.agent, v) :
                    /\ cli' = OldMainAfter(s, v, a)
                    /\ files' = files \cup a.wrote
    /\ UNCHANGED <<phase, frontier, status, state, raised, returned, invoked,
                   before, work, trace, writers, outcome, previous, frame, metrics>>

(* After main() ended, the workflow is built and run() is called. *)
workflow_run ==
    /\ cli.prog = "old_main"
    /\ cli.at \in {"printed_paths", "logged_cannot_run", "logged_unexpected_error"}
    /\ invoke
    /\ UNCHANGED cli

(* The agent class a node builds, and its keyword arguments (parameter ->  *)
(* key read with state.get).                                               *)
NodeAgent(n) ==
    CASE n = "data_downloader"        -> "DataDownloaderAgent"
      [] n = "data_preprocessor"      -> "DataPreprocessorAgent"
      [] n = "metrics_calculator"     -> "MetricsCalculatorAgent"
      [] n = "visualizations"         -> "VisualizationsAgent"
      [] n = "news_collector"         -> "NewsCollectorAgent"
      [] n = "report_generator"       -> "ReportGeneratorAgent"
      [] n = "final_report_generator" -> "FinalReportGeneratorAgent"

NodeArguments(n, st) == [k \in NodeReads(n) |-> Get(st, k)]

(* What the agent of node n does: what the agent of the same class did in  *)
(* main() when it was built there on the same arguments, anything its      *)
(* collaborators allow (fresh) otherwise.                                  *)
AsInOldMain(n, fresh) ==
    LET same == { i \in 1..Len(cli.ran) :
                    /\ cli.ran[i].agent = NodeAgent(n)
                    /\ cli.ran[i].args = NodeArguments(n, state) }
    IN  IF same # {} THEN { cli.ran[i].a : i \in same } ELSE fresh

same_data_downloader ==
    /\ "data_downloader" \in frontier
    /\ \E a \in AsInOldMain("data_downloader", Outcomes("data_downloader")) : RunNode("data_downloader", a)

same_data_preprocessor ==
    /\ "data_preprocessor" \in frontier
    /\ \E a \in AsInOldMain("data_preprocessor", Outcomes("data_preprocessor")) : RunNode("data_preprocessor", a)

same_metrics_calculator ==
    /\ "metrics_calculator" \in frontier
    /\ \E a \in AsInOldMain("metrics_calculator", Outcomes("metrics_calculator")) : RunNode("metrics_calculator", a)

same_visualizations ==
    /\ "visualizations" \in frontier
    /\ \E a \in AsInOldMain("visualizations", Outcomes("visualizations")) : RunNode("visualizations", a)

same_news_collector ==
    /\ "news_collector" \in frontier
    /\ \E a \in AsInOldMain("news_collector", Outcomes("news_collector")) : RunNode("news_collector", a)

same_report_generator ==
    /\ "report_generator" \in frontier
    /\ \E a \in AsInOldMain("report_generator", Outcomes("report_generator")) : RunNode("report_generator", a)

same_final_report_generator ==
    /\ "final_report_generator" \in frontier
    /\ \E a \in AsInOldMain("final_report_generator", Outcomes("final_report_generator")) : RunNode("final_report_generator", a)

NextBoth ==
    \/ old_main_stage
    \/ workflow_run
    \/ Schedule
    \/ same_data_downloader
    \/ same_data_preprocessor
    \/ same_metrics_calculator
    \/ same_visualizations
    \/ same_news_collector
    \/ same_report_generator
    \/ same_final_report_generator
    \/ Return

SpecBoth == InitBoth /\ [][NextBoth]_vars

----------------------------------------------------------------------------

(* The metrics tool on a processed file of up to MaxRows rows, run on the  *)
(* first or on the twentieth day of a month.  A row was notified today,    *)
(* 10 days ago (in the previous 7 days) or 40 days ago (in the previous 30 *)
(* days), and its four columns are all defined one way, all the other way, *)
(* or all ignored.                                                         *)

DaysBack == {0, 10, 40}

DaysOfMonth == {1, 20}

Row(back, EVOLUCAO, UTI, VACINA, VACINA_COV) ==
    [ DATA_NOTIFICACAO |-> 2 * (Today - back), EVOLUCAO |-> EVOLUCAO, UTI |-> UTI,
      VACINA |-> VACINA, VACINA_COV |-> VACINA_COV ]

Rows ==
    UNION { { Row(back, "OBITO", "SIM", "SIM", "NAO"),
              Row(back, "CURA", "NAO", "NAO", "SIM"),
              Row(back, "IGNORADO", "IGNORADO", "IGNORADO", "IGNORADO") } :
            back \in DaysBack }

Frames ==
    UNION { [1..len -> Rows] : len \in 0..MaxRows }

InitRates ==
    /\ phase = "idle"
    /\ frontier = {}
    /\ status = [n \in NodeSet |-> "Pending"]
    /\ state = EmptyState
    /\ raised = NoExc
    /\ returned = {}
    /\ invoked = << >>
    /\ before = EmptyState
    /\ work = << >>
    /\ trace = << >>
    /\ files = {}
    /\ writers = [k \in Keys |-> {}]
    /\ outcome = [m \in NodeSet |-> {}]
    /\ previous = {}
    /\ cli = NoProgram
    /\ \E df \in Frames, day \in DaysOfMonth : frame = [df |-> df, day |-> day]
    /\ metrics = {}

(* run_metrics_calculation on a frame that was loaded: the rates are       *)
(* calculated and rounded into the dict the tool saves.                    *)
calculate_metrics ==
    /\ metrics = {}
    /\ metrics' = { metrics_dict(frame.df, frame.day) }
    /\ UNCHANGED <<phase, frontier, status, state, raised, returned, invoked,
                   before, work, trace, files, writers, outcome, previous, cli,
                   frame>>

NextRates == calculate_metrics

SpecRates == InitRates /\ [][NextRates]_vars

----------------------------------------------------------------------------
(* The stage contracts of the specification (section 6, the table of       *)
(* required input keys and produced output keys), by node.                 *)

DeclaredInputs(n) ==
    CASE n = "data_downloader"   -> {}
      [] n = "data_preprocessor" -> {"downloaded_file_path"}
      [] n = "metrics_calculator" -> {"processed_data_file_path"}
      [] n = "visualizations"    -> {"processed_data_file_path"}
      [] n = "news_collector"    -> {}
      [] n = "report_generator"  ->
            {"metrics_file_path", "last_30_days_json_file_path",
             "last_12_months_json_file_path", "news_file_path"}
      [] n = "final_report_generator" ->
            {"metadata_file_path", "periods_file_path", "metrics_file_path",
             "report_file_path", "last_30_days_plot_file_path",
             "last_12_months_plot_file_path"}

DeclaredOutputs(n) ==
    CASE n = "data_downloader"   -> {"downloaded_file_path", "metadata_file_path"}
      [] n = "data_preprocessor" -> {"processed_data_file_path"}
      [] n = "metrics_calculator" -> {"periods_file_path", "metrics_file_path"}
      [] n = "visualizations"    ->
            {"last_30_days_json_file_path", "last_30_days_plot_file_path",
             "last_12_months_json_file_path", "last_12_months_plot_file_path"}
      [] n = "news_collector"    -> {"news_file_path"}
      [] n = "report_generator"  -> {"report_file_path"}
      [] n = "final_report_generator" -> {"final_report_file_path"}

AllDeclaredOutputs == UNION { DeclaredOutputs(n) : n \in NodeSet }

(* The stage the specification designates as the producer of key k. *)
Producer(k) == CHOOSE n \in NodeSet : k \in DeclaredOutputs(n)

(* The stages before n in the chain. *)
Earlier(n) == { Nodes[i] : i \in 1..(Pos(n) - 1) }

(* The node invoked last. *)
LastInvoked == invoked[Len(invoked)]

(* Node n has finished and is the node invoked last. *)
JustRan(n) ==
    /\ invoked # << >>
    /\ LastInvoked = n
    /\ status[n] \in {"Succeeded", "Failed"}

(* The exceptions that escape a node while its tool is built: ValueError   *)
(* (a configuration error); and after that: TypeError and KeyError (the    *)
(* node subscripting its agent's result), KeyError and OSError (unguarded  *)
(* code of a tool).  None of them is a value of the stage contract.        *)
ConfigurationErrors == {"ValueError"}
InternalErrors      == {"TypeError", "KeyError", "OSError"}

----------------------------------------------------------------------------
(* C1. Sequentiality: a stage is invoked only if every stage before it in  *)
(* the chain has completed successfully; in particular, when the download  *)
(* stage failed the preprocess stage is never invoked.                     *)
C1_Sequentiality ==
    /\ \A n \in NodeSet :
          (status[n] # "Pending" \/ n \in Range(invoked)) =>
              \A m \in Earlier(n) : status[m] = "Succeeded"
    /\ status["data_downloader"] = "Failed" =>
          /\ status["data_preprocessor"] = "Pending"
          /\ "data_preprocessor" \notin Range(invoked)

(* The metrics stage was invoked after two successes and failed; the       *)
(* visualization stage is not invoked.                                     *)
C1_Witness ==
    /\ invoked = << "data_downloader", "data_preprocessor", "metrics_calculator" >>
    /\ status["metrics_calculator"] = "Failed"
    /\ status["visualizations"] = "Pending"
    /\ phase = "aborted"

(* C2. If stage k fails, the state the run returns is exactly the state at *)
(* the end of stage k-1.                                                   *)
C2_FailureReturnsPriorState ==
    phase = "aborted" => returned = {before}

(* C3. Strict additive contract: when a stage succeeds, the key set after  *)
(* it is the key set before it united with exactly the stage's declared    *)
(* output keys, and no value written before is changed.                    *)
C3_AdditiveContract ==
    [][ \A n \in NodeSet :
          (status[n] = "Running" /\ status'[n] = "Succeeded") =>
              /\ KeysOf(state') = KeysOf(state) \cup DeclaredOutputs(n)
              /\ \A k \in KeysOf(state) : state'[k] = state[k] ]_vars

(* The visualization stage succeeded on top of the five keys written       *)
(* before it.                                                              *)
C3_Witness ==
    /\ status["visualizations"] = "Succeeded"
    /\ LastInvoked = "visualizations"
    /\ KeysOf(state) = KeysOf(before) \cup DeclaredOutputs("visualizations")
    /\ Cardinality(KeysOf(before)) = 5

(* C4 as stated. After seven successes the final state holds all 11        *)
(* declared keys, each with the value its stage produced.                  *)
C4_ElevenKeys ==
    phase = "completed" =>
        \A st \in returned :
            /\ KeysOf(st) = AllDeclaredOutputs
            /\ Cardinality(KeysOf(st)) = 11
            /\ st["final_report_file_path"] \notin {Absent, None}

(* C4 as amended. After seven successes run returns one state; it holds    *)
(* all 12 declared keys, each with the path its stage produced, and        *)
(* final_report_file_path is present.                                      *)
C4_TwelveKeys ==
    phase = "completed" =>
        /\ Cardinality(returned) = 1
        /\ \A n \in NodeSet : status[n] = "Succeeded"
        /\ \A st \in returned :
            /\ KeysOf(st) = AllDeclaredOutputs
            /\ Cardinality(KeysOf(st)) = 12
            /\ \A k \in Keys : st[k] = PathOf(k)
            /\ st["final_report_file_path"] \notin {Absent, None}

(* run has returned after seven successes. *)
C4_Witness ==
    /\ phase = "completed"
    /\ returned = {state}
    /\ Len(invoked) = 7
    /\ state["final_report_file_path"] = FinalHtmlPath

(* C5. A stage that receives a state in which a key it requires is absent  *)
(* or null fails with a MissingDependency failure before doing any work.   *)
C5_MissingDependency ==
    \A n \in NodeSet :
        (JustRan(n) /\ \E k \in DeclaredInputs(n) : Get(before, k) = None) =>
            /\ status[n] = "Failed"
            /\ raised \in {"MissingDependency"} \cup ConfigurationErrors
            /\ work = << >>

(* C6. The metrics stage invoked without processed_data_file_path raises   *)
(* MissingDependency, computes nothing and writes neither of its keys.     *)
C6_MetricsMissingDependency ==
    (JustRan("metrics_calculator") /\ before["processed_data_file_path"] = Absent) =>
        /\ raised \in {"MissingDependency"} \cup ConfigurationErrors
        /\ \A i \in 1..Len(work) : work[i].op # "metrics.calculate"
        /\ state["periods_file_path"] = Absent
        /\ state["metrics_file_path"] = Absent

(* C7. An error inside a stage is converted at the stage boundary: the     *)
(* orchestrator never observes a raw exception.                            *)
C7_NoRawException ==
    \A n \in NodeSet : status[n] = "Failed" => raised \notin InternalErrors

(* C8. The result of a run is a complete state or a labeled failure that   *)
(* names the failed stage and the cause; nothing else.                     *)
C8_BinaryResult ==
    phase \in {"completed", "aborted"} =>
        \/ /\ phase = "completed"
           /\ raised = NoExc
           /\ \A st \in returned : KeysOf(st) = Keys
        \/ /\ phase = "aborted"
           /\ returned = {}
           /\ raised \notin InternalErrors \cup {NoExc}

(* C9. Once a stage fails the run is aborted for good: nothing changes     *)
(* after the abort, a node only goes Pending -> Running -> Succeeded or    *)
(* Failed, a failed node aborts the run, and no node is invoked twice.     *)
StatusStep(old, new) ==
    \/ new = old
    \/ old = "Pending" /\ new = "Running"
    \/ old = "Running" /\ new \in {"Succeeded", "Failed"}

C9_FailureIsTerminal ==
    /\ []( (\E n \in NodeSet : status[n] = "Failed") <=> phase = "aborted" )
    /\ []( \A n \in NodeSet :
              Cardinality({ i \in 1..Len(invoked) : invoked[i] = n }) <= 1 )
    /\ [][ /\ phase # "aborted"
           /\ \A n \in NodeSet : StatusStep(status[n], status'[n]) ]_vars

(* The visualization stage failed; the run is aborted with the later       *)
(* stages still pending.                                                   *)
C9_Witness ==
    /\ phase = "aborted"
    /\ status["visualizations"] = "Failed"
    /\ \A m \in {"news_collector", "report_generator", "final_report_generator"} :
          status[m] = "Pending"
    /\ \A m \in Earlier("visualizations") : status[m] = "Succeeded"

(* C10. Write-once keys: a key is assigned by at most one stage, its       *)
(* designated producer, and a key that holds a value keeps it.             *)
C10_WriteOnce ==
    /\ []( \A k \in Keys :
              /\ Cardinality(writers[k]) <= 1
              /\ writers[k] \subseteq {Producer(k)}
              /\ (state[k] # Absent => writers[k] # {}) )
    /\ [][ \A k \in Keys : state[k] # Absent => state'[k] = state[k] ]_vars

(* Every key has been written, each by its producer. *)
C10_Witness ==
    /\ \A k \in Keys : writers[k] = {Producer(k)}
    /\ \A k \in Keys : state[k] # Absent

----------------------------------------------------------------------------
(* C11. Failures are never silently swallowed: a stage that succeeded has  *)
(* produced every artifact it publishes, so each of its output keys holds  *)
(* the path of a file that was written; and a run in which a step of a     *)
(* stage failed does not go on.                                            *)
C11_NoSwallowedFailure ==
    \A n \in NodeSet :
        status[n] = "Succeeded" =>
            \A k \in DeclaredOutputs(n) : state[k] \in files

(* C12. No final report without its upstream stages: the final-report      *)
(* stage is invoked, final_report_file_path is written and the final       *)
(* report's files exist only when download, preprocess, metrics,           *)
(* visualize, news and narrative-report have all succeeded.                *)
C12_FinalOnlyAfterUpstream ==
    ( \/ status["final_report_generator"] # "Pending"
      \/ "final_report_generator" \in Range(invoked)
      \/ state["final_report_file_path"] # Absent
      \/ writers["final_report_file_path"] # {}
      \/ {FinalHtmlPath, FinalPdfPath} \cap files # {}
      \/ \E i \in 1..Len(trace) : trace[i].op = "final.write_html" )
    => \A m \in Earlier("final_report_generator") : status[m] = "Succeeded"

(* The final report was written and its key assigned, after six successes. *)
C12_Witness ==
    /\ status["final_report_generator"] = "Succeeded"
    /\ state["final_report_file_path"] = FinalHtmlPath
    /\ FinalHtmlPath \in files
    /\ \A m \in Earlier("final_report_generator") : status[m] = "Succeeded"
    /\ Cardinality(Earlier("final_report_generator")) = 6

(* C13. Configuration errors are fatal and precede the stage's work: an    *)
(* agent whose tool cannot be initialized (configuration file or section   *)
(* missing, API key missing) raises before any step of the stage; the      *)
(* stage then performs no step, writes no file and none of its keys, the   *)
(* run is aborted and no later stage is invoked.                           *)
CannotInitialize(n, env) ==
    \/ ~env.cfg_ok
    \/ n \in {"news_collector", "report_generator"} /\ ~env.key_ok

C13_ConfigurationErrorsFirst ==
    /\ [](/\ \A env \in DownloaderEnv :
                CannotInitialize("data_downloader", env) =>
                    DataDownloaderAgent(env).exc \in ConfigurationErrors
          /\ \A env \in NewsEnv :
                CannotInitialize("news_collector", env) =>
                    NewsCollectorAgent(env).exc \in ConfigurationErrors
          /\ \A env \in PreprocessorEnv :
                CannotInitialize("data_preprocessor", env) =>
                    DataPreprocessorAgent(RawPath, env).exc \in ConfigurationErrors
          /\ \A env \in MetricsEnv :
                CannotInitialize("metrics_calculator", env) =>
                    MetricsCalculatorAgent(ProcessedPath, env).exc \in ConfigurationErrors
          /\ \A env \in VisualizationsEnv :
                CannotInitialize("visualizations", env) =>
                    VisualizationsAgent(ProcessedPath, env).exc \in ConfigurationErrors
          /\ \A env \in ReportEnv :
                CannotInitialize("report_generator", env) =>
                    ReportGeneratorAgent(MetricsPath, Days30Json, Months12Json,
                                         NewsPath, env).exc \in ConfigurationErrors
          /\ \A env \in FinalEnv :
                CannotInitialize("final_report_generator", env) =>
                    FinalReportGeneratorAgent(RawMetaPath, PeriodsPath, MetricsPath,
                                              ReportPath, Days30Plot, Months12Plot,
                                              env).exc \in ConfigurationErrors)
    /\ [](raised \in ConfigurationErrors =>
            /\ phase = "aborted"
            /\ status[LastInvoked] = "Failed"
            /\ work = << >>
            /\ state = before
            /\ \A k \in DeclaredOutputs(LastInvoked) : state[k] = Absent
            /\ \A m \in NodeSet \ (Earlier(LastInvoked) \cup {LastInvoked}) :
                  status[m] = "Pending" /\ m \notin Range(invoked))
    /\ [][ (raised = NoExc /\ raised' \in ConfigurationErrors) =>
              /\ files' = files
              /\ trace' = trace
              /\ state' = state ]_vars

(* The news agent could not be initialized after four successes: the news  *)
(* stage failed without performing a step and the run is aborted.          *)
C13_Witness ==
    /\ raised = "ValueError"
    /\ LastInvoked = "news_collector"
    /\ status["news_collector"] = "Failed"
    /\ work = << >>
    /\ NewsPath \notin files
    /\ state["news_file_path"] = Absent
    /\ phase = "aborted"
    /\ status["report_generator"] = "Pending"

(* C14. The stages execute in the fixed total order download, preprocess,  *)
(* metrics, visualize, news, narrative-report, final-report, without       *)
(* branching, joins or parallelism: the stages invoked so far are a prefix *)
(* of that order, at most one stage is scheduled and at most one is        *)
(* running at any moment, and the state changes only by the return of the  *)
(* one running stage.                                                      *)
TotalOrder ==
    << "data_downloader", "data_preprocessor", "metrics_calculator",
       "visualizations", "news_collector", "report_generator",
       "final_report_generator" >>

RunningStages == { n \in NodeSet : status[n] = "Running" }

C14_FixedTotalOrder ==
    /\ [](/\ Len(invoked) <= Len(TotalOrder)
          /\ \A i \in 1..Len(invoked) : invoked[i] = TotalOrder[i]
          /\ Cardinality(frontier) <= 1
          /\ Cardinality(RunningStages) <= 1
          /\ RunningStages \subseteq frontier
          /\ \A n \in NodeSet :
                /\ Cardinality(Successors(n)) = 1
                /\ Cardinality({ e \in Edges : e[2] = n }) <= 1)
    /\ [][ state' # state =>
              \E n \in NodeSet :
                  /\ RunningStages = {n}
                  /\ status'[n] = "Succeeded"
                  /\ state = before ]_vars

(* The news stage is running, alone, after the four stages before it. *)
C14_Witness ==
    /\ invoked = SubSeq(TotalOrder, 1, 5)
    /\ RunningStages = {"news_collector"}
    /\ frontier = {"news_collector"}
    /\ \A m \in Earlier("news_collector") : status[m] = "Succeeded"
    /\ state = before

(* C15. Determinism of orchestration: every call of run() starts from the  *)
(* empty state, and a second call in which each stage's agent does what it *)
(* did in the first call invokes the same stages in the same order and     *)
(* ends as the first did, with the same keys inserted in the same order    *)
(* and the same values.                                                    *)
AssignedKeys(n) == [i \in 1..Len(NodeAssigns(n)) |-> NodeAssigns(n)[i].target]

(* The keys in the order the nodes of inv that succeeded assigned them. *)
RECURSIVE InsertionOrder(_, _)
InsertionOrder(inv, st) ==
    IF inv = << >> THEN << >>
    ELSE (IF st[Head(inv)] = "Succeeded" THEN AssignedKeys(Head(inv)) ELSE << >>)
         \o InsertionOrder(Tail(inv), st)

(* The agents that ran in this call and in the call r did the same. *)
SameBehaviour(r) ==
    \A m \in NodeSet :
        (outcome[m] # {} /\ r.outcome[m] # {}) => outcome[m] = r.outcome[m]

C15_Determinism ==
    /\ status[EntryPoint] = "Running" => (before = EmptyState /\ state = EmptyState)
    /\ \A r \in previous :
          SameBehaviour(r) =>
              /\ Len(invoked) <= Len(r.invoked)
              /\ \A i \in 1..Len(invoked) : invoked[i] = r.invoked[i]
              /\ phase \in {"completed", "aborted"} =>
                    /\ invoked = r.invoked
                    /\ phase = r.phase
                    /\ raised = r.raised
                    /\ returned = r.returned
                    /\ KeysOf(state) = KeysOf(r.state)
                    /\ state = r.state
                    /\ InsertionOrder(invoked, status) =
                          InsertionOrder(r.invoked, r.status)

(* Both calls went through the seven stages and returned the twelve keys. *)
C15_Witness ==
    /\ phase = "completed"
    /\ \E r \in previous :
          /\ r.phase = "completed"
          /\ Len(r.invoked) = 7
          /\ r.returned = returned
          /\ Len(InsertionOrder(r.invoked, r.status)) = 12
    /\ Len(invoked) = 7

(* C16. The narrative-report stage consumes each of its four declared      *)
(* inputs: when it succeeds, the artifact named by each of                 *)
(* metrics_file_path, last_30_days_json_file_path,                         *)
(* last_12_months_json_file_path and news_file_path has been read.         *)
ReadByReport ==
    UNION { { a.steps[i].arg :
                i \in { j \in 1..Len(a.steps) : a.steps[j].op = "report.read" } } :
            a \in outcome["report_generator"] }

C16_ReportConsumesInputs ==
    status["report_generator"] = "Succeeded" =>
        \A k \in DeclaredInputs("report_generator") : state[k] \in ReadByReport

(* C17. The command-line entry point runs the chain once and then logs the *)
(* final state when the run succeeded, or logs the failure when a stage    *)
(* failed; it never ends with an exception nobody handled.                 *)
Ended == cli.at \notin {"none", "start", "in_run", "in_try"}

C17_EntryPointReports ==
    /\ \A n \in NodeSet :
          Cardinality({ i \in 1..Len(invoked) : invoked[i] = n }) <= 1
    /\ (Ended /\ phase = "completed") =>
          cli.at \in {"logged_final_state", "printed_paths"}
    /\ (Ended /\ phase = "aborted") =>
          cli.at \in {"logged_cannot_run", "logged_unexpected_error"}
    /\ cli.at # "unhandled_exception"

(* The periods the rates are reported for, and the two periods an increase *)
(* rate compares: <<start, end>> of the current and of the previous one.   *)
RatePeriods == {"last_30_days", "last_7_days", "current_month"}

PeriodStart(p, day) ==
    CASE p = "last_30_days"  -> last_30_days_start
      [] p = "last_7_days"   -> last_7_days_start
      [] p = "current_month" -> current_month_start(day)

Comparisons ==
    {"last_30_days_vs_previous", "last_7_days_vs_previous", "current_month_vs_previous"}

CurrentCases(c, df, day) ==
    CASE c = "last_30_days_vs_previous" ->
            Cardinality(period_df(df, last_30_days_start, now))
      [] c = "last_7_days_vs_previous" ->
            Cardinality(period_df(df, last_7_days_start, now))
      [] c = "current_month_vs_previous" ->
            Cardinality(period_df(df, current_month_start(day), now))

PreviousCases(c, df, day) ==
    CASE c = "last_30_days_vs_previous" ->
            Cardinality(period_df(df, previous_30_days_start, previous_30_days_end))
      [] c = "last_7_days_vs_previous" ->
            Cardinality(period_df(df, previous_7_days_start, previous_7_days_end))
      [] c = "current_month_vs_previous" ->
            Cardinality(period_df(df, last_month_start(day), last_month_end(day)))

(* No row of period p has column col defined (one of values). *)
NoUsableRecords(p, col, values) ==
    \A i \in period_df(frame.df, PeriodStart(p, frame.day), now) :
        frame.df[i][col] \notin values

(* The rates other than the increase rates are 0 for a period without      *)
(* usable records.                                                         *)
ZeroRatesOfEmptyPeriods(m) ==
    \A p \in RatePeriods :
        /\ NoUsableRecords(p, "EVOLUCAO", {"CURA", "OBITO"}) =>
              m.mortality_rate[p] = Hundredths(0)
        /\ NoUsableRecords(p, "UTI", {"SIM", "NAO"}) =>
              m.uti_occupancy_rate[p] = Hundredths(0)
        /\ NoUsableRecords(p, "VACINA", {"SIM", "NAO"}) =>
              m.vaccination_rate_flu[p] = Hundredths(0)
        /\ NoUsableRecords(p, "VACINA_COV", {"SIM", "NAO"}) =>
              m.vaccination_rate_covid[p] = Hundredths(0)

(* C18 as stated. Every rate reported for a period without usable records  *)
(* is 0, and so is each increase rate whose previous period has zero       *)
(* cases, also when the current period has cases.                          *)
C18_AllZeroRates ==
    \A m \in metrics :
        /\ ZeroRatesOfEmptyPeriods(m)
        /\ \A c \in Comparisons :
              PreviousCases(c, frame.df, frame.day) = 0 =>
                  m.increase_rate[c] = Hundredths(0)

(* C18 as amended. The mortality, UTI occupancy and vaccination rates of a *)
(* period without usable records are 0; an increase rate whose previous    *)
(* period has zero cases is 0 when the current period has none either and  *)
(* infinite when the current period has cases; the calculation raises      *)
(* nothing on any frame.                                                   *)
C18_ZeroOrInfiniteRates ==
    \A m \in metrics :
        /\ ZeroRatesOfEmptyPeriods(m)
        /\ \A c \in Comparisons :
              PreviousCases(c, frame.df, frame.day) = 0 =>
                  m.increase_rate[c] =
                      (IF CurrentCases(c, frame.df, frame.day) > 0
                       THEN Infinity ELSE Hundredths(0))

(* The metrics of a frame with cases in the last 30 days and none in the   *)
(* 30 days before, and with no usable record in the last 7 days.           *)
C18_Witness ==
    \E m \in metrics :
        /\ CurrentCases("last_30_days_vs_previous", frame.df, frame.day) > 0
        /\ PreviousCases("last_30_days_vs_previous", frame.df, frame.day) = 0
        /\ m.increase_rate["last_30_days_vs_previous"] = Infinity
        /\ NoUsableRecords("last_7_days", "EVOLUCAO", {"CURA", "OBITO"})
        /\ m.mortality_rate["last_7_days"] = Hundredths(0)

(* C20. A collaborator failure in the news stage is a stage failure: when  *)
(* the news search raises, returns no results or returns results without   *)
(* news items, the news stage fails, news_file_path is not written, no     *)
(* news file is saved, the stage is not run again and neither the          *)
(* narrative-report nor the final-report stage is invoked.                 *)
NewsSearchResults ==
    UNION { { a.steps[i].arg :
                i \in { j \in 1..Len(a.steps) : a.steps[j].op = "news.search" } } :
            a \in outcome["news_collector"] }

NewsSearchFailed == NewsSearchResults \cap {"raises", "empty", "no_news"} # {}

C20_NewsFailureIsStageFailure ==
    /\ [](NewsSearchFailed =>
            /\ status["news_collector"] = "Failed"
            /\ phase = "aborted"
            /\ state["news_file_path"] = Absent
            /\ writers["news_file_path"] = {}
            /\ {NewsPath, NewsMetaPath} \cap files = {}
            /\ \A i \in 1..Len(trace) : trace[i].op # "news.save"
            /\ Cardinality({ i \in 1..Len(invoked) : invoked[i] = "news_collector" }) = 1
            /\ \A m \in {"report_generator", "final_report_generator"} :
                  status[m] = "Pending" /\ m \notin Range(invoked) /\ outcome[m] = {})
    /\ [][ NewsSearchFailed => UNCHANGED <<status, state, invoked, files>> ]_vars

(* The search returned results without news items after four successes:    *)
(* the news stage failed and the run is aborted.                           *)
C20_Witness ==
    /\ NewsSearchResults = {"no_news"}
    /\ status["news_collector"] = "Failed"
    /\ raised = "TypeError"
    /\ \A m \in Earlier("news_collector") : status[m] = "Succeeded"
    /\ status["report_generator"] = "Pending"

(* C21. Every agent's run() returns None exactly when its tool reports     *)
(* failure (returns None), and otherwise returns a dictionary that holds   *)
(* every key its graph node reads from it, so that a node whose agent      *)
(* returned a dictionary succeeds and never fails on a missing key.        *)
ToolFailed(t) == IF "path" \in DOMAIN t THEN t.path = None ELSE t.ret.none

(* Agent result a follows tool result t, for node n. *)
AgentFollowsTool(n, t, a) ==
    t.exc = NoExc =>
        /\ a.exc = NoExc
        /\ a.ret.none <=> ToolFailed(t)
        /\ ~a.ret.none => NodeSources(n) \subseteq DOMAIN a.ret.val

(* The agent of the node invoked last follows its tool, whatever the       *)
(* collaborators do, on the state the node was handed.                     *)
LastAgentFollowsTool ==
    CASE LastInvoked = "data_downloader" ->
            \A env \in { e \in DownloaderEnv : e.cfg_ok } :
                AgentFollowsTool("data_downloader", run_download_process(env),
                                 DataDownloaderAgent(env))
      [] LastInvoked = "data_preprocessor" ->
            \A env \in { e \in PreprocessorEnv : e.cfg_ok } :
                AgentFollowsTool("data_preprocessor",
                    run_preprocessing_process(Get(before, "downloaded_file_path"), env),
                    DataPreprocessorAgent(Get(before, "downloaded_file_path"), env))
      [] LastInvoked = "metrics_calculator" ->
            \A env \in { e \in MetricsEnv : e.cfg_ok } :
                AgentFollowsTool("metrics_calculator",
                    run_metrics_calculation(Get(before, "processed_data_file_path"), env),
                    MetricsCalculatorAgent(Get(before, "processed_data_file_path"), env))
      [] LastInvoked = "visualizations" ->
            \A env \in { e \in VisualizationsEnv : e.cfg_ok } :
                AgentFollowsTool("visualizations",
                    run_visualization_process(Get(before, "processed_data_file_path"), env),
                    VisualizationsAgent(Get(before, "processed_data_file_path"), env))
      [] LastInvoked = "news_collector" ->
            \A env \in { e \in NewsEnv : e.cfg_ok /\ e.key_ok } :
                AgentFollowsTool("news_collector", run_collection_process(env),
                                 NewsCollectorAgent(env))
      [] LastInvoked = "report_generator" ->
            \A env \in { e \in ReportEnv : e.cfg_ok /\ e.key_ok } :
                AgentFollowsTool("report_generator",
                    run_report_process(Get(before, "metrics_file_path"),
                                       Get(before, "last_30_days_json_file_path"),
                                       Get(before, "last_12_months_json_file_path"),
                                       Get(before, "news_file_path"), env),
                    ReportGeneratorAgent(Get(before, "metrics_file_path"),
                                         Get(before, "last_30_days_json_file_path"),
                                         Get(before, "last_12_months_json_file_path"),
                                         Get(before, "news_file_path"), env))
      [] LastInvoked = "final_report_generator" ->
            \A env \in { e \in FinalEnv : e.cfg_ok } :
                AgentFollowsTool("final_report_generator",
                    run_generation_process(Get(before, "metadata_file_path"),
                                           Get(before, "periods_file_path"),
                                           Get(before, "metrics_file_path"),
                                           Get(before, "report_file_path"),
                                           Get(before, "last_30_days_plot_file_path"),
                                           Get(before, "last_12_months_plot_file_path"), env),
                    FinalReportGeneratorAgent(Get(before, "metadata_file_path"),
                                              Get(before, "periods_file_path"),
                                              Get(before, "metrics_file_path"),
                                              Get(before, "report_file_path"),
                                              Get(before, "last_30_days_plot_file_path"),
                                              Get(before, "last_12_months_plot_file_path"), env))

Gets(steps) == SelectSeq(steps, LAMBDA s : s.op = "download.get")

(* The most recent day (fewest days back) whose file answers. *)
FirstAvailable(env) == CHOOSE d \in env.ok : \A e \in env.ok : d <= e

DownloadTriesInOrder(env) ==
    LET t == run_download_process(env)
        g == Gets(t.steps)
    IN  /\ Len(g) <= DaysToTry
        /\ \A i \in 1..Len(g) : g[i].arg = i - 1
        /\ env.ok # {} =>
              /\ Len(g) = FirstAvailable(env) + 1
              /\ ~(t.exc = NoExc /\ t.ret.none)
              /\ t.exc = NoExc =>
                    /\ t.ret.val["downloaded_file_path"] = RawPath
                    /\ RawPath \in t.wrote
        /\ env.ok = {} =>
              /\ Len(g) = DaysToTry
              /\ t.exc = NoExc
              /\ t.ret.none
              /\ t.wrote = {}

C22_DownloadTriesInOrder ==
    /\ \A env \in DownloaderEnv : DownloadTriesInOrder(env)
    /\ \A a \in outcome["data_downloader"] :
          LET g == Gets(a.steps)
          IN  /\ Len(g) <= DaysToTry
              /\ \A i \in 1..Len(g) : g[i].arg = i - 1
              /\ \A i \in 1..Len(a.steps) :
                    a.steps[i].op = "download.save_metadata" =>
                        /\ i = Len(a.steps)
                        /\ a.steps[i].arg = g[Len(g)].arg
              /\ (a.exc = NoExc /\ a.ret.none) => Len(g) = DaysToTry
              /\ (a.exc = NoExc /\ ~a.ret.none) =>
                    /\ state["downloaded_file_path"] = RawPath
                    /\ RawPath \in files

(* Today's file did not answer, yesterday's did: two candidates were tried *)
(* in order and the download stage succeeded.                              *)
C22_Witness ==
    /\ status["data_downloader"] = "Succeeded"
    /\ \E a \in outcome["data_downloader"] :
          /\ Len(Gets(a.steps)) = 2
          /\ Gets(a.steps)[1].arg = 0
          /\ Gets(a.steps)[2].arg = 1
    /\ state["downloaded_file_path"] = RawPath

(* C23. Whenever the download stage succeeds, both keys it writes,         *)
(* downloaded_file_path and metadata_file_path, are non-null: a failure to *)
(* save the download metadata makes the download stage fail.               *)
C23_DownloadKeysNonNull ==
    status["data_downloader"] = "Succeeded" =>
        /\ state["downloaded_file_path"] \notin {Absent, None}
        /\ state["metadata_file_path"] \notin {Absent, None}

(* C24. Dependency well-formedness of the fixed chain: each key a stage    *)
(* requires is an output of a stage at a strictly earlier position, so     *)
(* that whenever a stage is started after the success of all earlier       *)
(* stages, every key it reads from the state is present.                   *)
C24_DependenciesWellFormed ==
    /\ \A n \in NodeSet :
          /\ NodeReads(n) \subseteq WrittenBefore(n)
          /\ DeclaredInputs(n) \subseteq UNION { DeclaredOutputs(m) : m \in Earlier(n) }
          /\ \A k \in NodeReads(n) : Pos(Producer(k)) < Pos(n)
    /\ \A n \in NodeSet :
          ( /\ n \in Range(invoked)
            /\ \A m \in Earlier(n) : status[m] = "Succeeded" ) =>
              \A k \in NodeReads(n) \cup DeclaredInputs(n) :
                  /\ LastInvoked = n => before[k] # Absent
                  /\ state[k] # Absent
                  /\ writers[k] # {}
                  /\ writers[k] \subseteq Earlier(n)

(* The final-report stage is running: the six keys it reads were in the    *)
(* state it was handed, written by four different earlier stages.          *)
C24_Witness ==
    /\ status["final_report_generator"] = "Running"
    /\ LastInvoked = "final_report_generator"
    /\ \A k \in NodeReads("final_report_generator") : before[k] # Absent
    /\ Cardinality(NodeReads("final_report_generator")) = 6
    /\ Cardinality(UNION { writers[k] : k \in NodeReads("final_report_generator") }) = 4

(* The operations of a sequence of steps, and the prefix relation. *)
Ops(steps) == [i \in 1..Len(steps) |-> steps[i].op]

IsPrefix(s, t) == Len(s) <= Len(t) /\ \A i \in 1..Len(s) : s[i] = t[i]

(* C25. The preprocess tool reports success (returns                        *)
(* processed_data_file_path) only if the raw file was loaded with all      *)
(* required columns, the cleaned data is non-empty and was saved, and the  *)
(* metadata file was saved, in that order; a failure at any of these steps *)
(* returns None and skips every later step.                                *)
PreprocessSteps ==
    << "preprocess.load", "preprocess.clean", "preprocess.save_csv",
       "preprocess.save_metadata" >>

PreprocessInOrder(path, env) ==
    LET t  == run_preprocessing_process(path, env)
        ok == t.exc = NoExc /\ ~t.ret.none
        loaded == path # None /\ env.load_ok
        saved  == loaded /\ env.clean_ok /\ ~env.empty /\ env.csv_ok
    IN  /\ IsPrefix(Ops(t.steps), PreprocessSteps)
        /\ ok <=> (saved /\ env.meta_ok)
        /\ ok => /\ Ops(t.steps) = PreprocessSteps
                 /\ t.ret.val["processed_data_file_path"] = ProcessedPath
                 /\ t.wrote = {ProcessedPath, ProcMetaPath}
        /\ ~loaded =>
              /\ t.exc = NoExc /\ t.ret.none
              /\ Ops(t.steps) = SubSeq(PreprocessSteps, 1, 1)
              /\ t.wrote = {}
        /\ (loaded /\ env.clean_ok /\ ~saved) =>
              /\ t.exc = NoExc /\ t.ret.none
              /\ Ops(t.steps) = SubSeq(PreprocessSteps, 1, 3)
              /\ t.wrote = {}
        /\ (saved /\ ~env.meta_ok) =>
              /\ t.exc = NoExc /\ t.ret.none
              /\ Ops(t.steps) = PreprocessSteps
              /\ t.wrote = {ProcessedPath}

C25_PreprocessInOrder ==
    /\ \A env \in PreprocessorEnv :
          \A path \in {None, RawPath} : PreprocessInOrder(path, env)
    /\ \A a \in outcome["data_preprocessor"] :
          /\ IsPrefix(Ops(a.steps), PreprocessSteps)
          /\ (a.exc = NoExc /\ ~a.ret.none) =>
                /\ Ops(a.steps) = PreprocessSteps
                /\ {ProcessedPath, ProcMetaPath} \subseteq files
                /\ state["processed_data_file_path"] = ProcessedPath
          /\ (a.exc = NoExc /\ a.ret.none) =>
                /\ ProcMetaPath \notin files
                /\ state["processed_data_file_path"] = Absent
                /\ status["data_preprocessor"] = "Failed"
    /\ status["data_preprocessor"] = "Succeeded" =>
          {ProcessedPath, ProcMetaPath} \subseteq files

(* The cleaned data could not be saved: the preprocess tool returned None  *)
(* after the save step, without saving the metadata, and the stage failed. *)
C25_Witness ==
    /\ status["data_preprocessor"] = "Failed"
    /\ \E a \in outcome["data_preprocessor"] :
          /\ a.exc = NoExc
          /\ a.ret.none
          /\ Ops(a.steps) = SubSeq(PreprocessSteps, 1, 3)
    /\ ProcessedPath \notin files
    /\ ProcMetaPath \notin files

(* C26. The narrative-report tool performs its steps strictly in the order *)
(* build prompt, call the LLM, save the report, save metadata, each step   *)
(* running only if the previous one succeeded; it returns the report path  *)
(* only when the report file was saved, and the LLM is never called when   *)
(* the prompt could not be built.                                          *)
ReportSteps ==
    << "report.build_prompt", "report.generate", "report.save",
       "report.save_metadata" >>

(* The steps of the report tool other than the reads of _build_prompt. *)
ReportOps(steps) == SelectSeq(Ops(steps), LAMBDA op : op # "report.read")

ReportInOrder(metrics_path, days30_path, months12_path, news_path, env) ==
    LET t == run_report_process(metrics_path, days30_path, months12_path, news_path, env)
        ops == ReportOps(t.steps)
        prompt == build_prompt(metrics_path, days30_path, months12_path, news_path, env)
    IN  /\ t.exc = NoExc
        /\ IsPrefix(ops, ReportSteps)
        /\ Len(ops) >= 1
        /\ Len(ops) >= 2 <=> prompt # None
        /\ Len(ops) >= 3 <=> (prompt # None /\ env.llm_ok)
        /\ Len(ops) = 4 <=> (prompt # None /\ env.llm_ok /\ env.save_ok)
        /\ t.path # None <=> (prompt # None /\ env.llm_ok /\ env.save_ok)
        /\ t.path # None => (t.path = ReportPath /\ ReportPath \in t.wrote)
        /\ t.path = None => t.wrote = {}

C26_ReportInOrder ==
    /\ (invoked # << >> /\ LastInvoked = "report_generator") =>
          \A env \in { e \in ReportEnv : e.key_ok /\ e.cfg_ok } :
              ReportInOrder(Get(before, "metrics_file_path"),
                            Get(before, "last_30_days_json_file_path"),
                            Get(before, "last_12_months_json_file_path"),
                            Get(before, "news_file_path"), env)
    /\ \A a \in outcome["report_generator"] :
          /\ IsPrefix(ReportOps(a.steps), ReportSteps)
          /\ (a.exc = NoExc /\ ~a.ret.none) =>
                /\ ReportOps(a.steps) = ReportSteps
                /\ ReportPath \in files
                /\ state["report_file_path"] = ReportPath
          /\ (a.exc = NoExc /\ a.ret.none) =>
                /\ Len(ReportOps(a.steps)) \in 1..3
                /\ ReportMetaPath \notin files
                /\ state["report_file_path"] = Absent
    /\ ReportPath \in files =>
          \E i \in 1..Len(trace) : \E j \in (i+1)..Len(trace) :
              /\ trace[i].op = "report.build_prompt"
              /\ trace[j].op = "report.generate"

(* The prompt could not be built after five successes: the tool stopped    *)
(* after that step, the LLM was not called and the report stage failed.    *)
C26_Witness ==
    /\ status["report_generator"] = "Failed"
    /\ \A m \in Earlier("report_generator") : status[m] = "Succeeded"
    /\ \E a \in outcome["report_generator"] :
          /\ a.exc = NoExc
          /\ ReportOps(a.steps) = SubSeq(ReportSteps, 1, 1)
    /\ \A i \in 1..Len(trace) : trace[i].op # "report.generate"
    /\ ReportPath \notin files

(* C27. The final-report tool never lets an error escape                    *)
(* run_generation_process: any error while reading the template or the     *)
(* inputs, substituting placeholders, writing the HTML or generating the   *)
(* PDF results in a None return (stage failure), so a path is returned     *)
(* only when the HTML file and the PDF were both produced; and the HTML    *)
(* path is returned only after the HTML file has been written.             *)
C27_FinalToolFailsOnAnyError ==
    \A a \in outcome["final_report_generator"] :
        /\ a.steps # << >> => a.exc = NoExc
        /\ (a.exc = NoExc /\ ~a.ret.none) =>
              /\ a.ret.val["final_report_file_path"] = FinalHtmlPath
              /\ \E i \in 1..Len(a.steps) : a.steps[i].op = "final.write_html"
              /\ FinalHtmlPath \in files
              /\ FinalPdfPath \in files

(* C28. The graph workflow and the legacy sequential script (old_main.main) *)
(* are equivalent orchestrations: for identical agent behaviour they build *)
(* the same seven agents in the same order on the same argument values,    *)
(* produce the same artifact values, and stop at the same stage, with the  *)
(* same exception, when an agent fails.                                    *)
C28_SameOrchestration ==
    /\ cli.exc # "NameError"
    /\ Len(cli.ran) <= Len(old_main_stages)
    /\ \A i \in 1..Len(cli.ran) : cli.ran[i].agent = NodeAgent(Nodes[i])
    /\ Len(invoked) <= Len(cli.ran)
    /\ \A i \in 1..Len(invoked) :
          /\ NodeAgent(invoked[i]) = cli.ran[i].agent
          /\ outcome[invoked[i]] \subseteq {cli.ran[i].a}
    /\ invoked # << >> =>
          NodeArguments(LastInvoked, before) = cli.ran[Len(invoked)].args
    /\ phase \in {"completed", "aborted"} =>
          /\ Len(invoked) = Len(cli.ran)
          /\ \A k \in Keys : state[k] = cli.locals[k]
          /\ raised = cli.exc
          /\ phase = "completed" <=> cli.at = "printed_paths"
          /\ phase = "aborted" <=>
                cli.at \in {"logged_cannot_run", "logged_unexpected_error"}
          /\ phase = "aborted" => status[Nodes[cli.stage]] = "Failed"

(* Both stopped at the fourth stage: main() caught the TypeError of the    *)
(* visualization agent's None result, run() raised it, and the five keys   *)
(* written before hold the same values in both.                            *)
C28_Witness ==
    /\ phase = "aborted"
    /\ cli.at = "logged_unexpected_error"
    /\ cli.stage = 4
    /\ Len(cli.ran) = 4
    /\ invoked = SubSeq(Nodes, 1, 4)
    /\ raised = "TypeError"
    /\ cli.exc = "TypeError"
    /\ Cardinality(KeysOf(state)) = 5
    /\ \A k \in Keys : state[k] = cli.locals[k]

(* C29. Every run terminates: when each collaborator call returns, a run   *)
(* that was started eventually reaches the completed state, with all seven *)
(* stages succeeded, or the aborted state; it makes at most seven stage    *)
(* invocations and, inside the download stage, at most days_to_try         *)
(* download attempts.                                                      *)
Terminated == phase \in {"completed", "aborted"}

DownloadAttempts == Len(SelectSeq(trace, LAMBDA s : s.op = "download.get"))

C29_Termination ==
    /\ (phase = "running") ~> Terminated
    /\ [](Len(invoked) <= 7)
    /\ [](DownloadAttempts <= DaysToTry)
    /\ [](phase = "completed" => \A n \in NodeSet : status[n] = "Succeeded")
    /\ [](Terminated => \A n \in NodeSet : status[n] # "Running")
    /\ [][Terminated => UNCHANGED vars]_vars

(* A run completed after seven invocations and days_to_try download        *)
(* attempts.                                                               *)
C29_Witness ==
    /\ phase = "completed"
    /\ Len(invoked) = 7
    /\ DownloadAttempts = DaysToTry

====
